---- MODULE Spec2Model ----
(***************************************************************************)
(* A model of the LR35902 CPU interpreter of src/src/cpu.rs: the register  *)
(* file with its 8/16-bit views, the flag helpers, the executor and step.  *)
(***************************************************************************)
EXTENDS Integers, Sequences, FiniteSets, TLC

VARIABLES
    registers,        \* Cpu.registers: [u16; 6], indexed 0..5
    mem,              \* Bus.ram, kept as the map of its non-zero bytes
    cycles,           \* Cpu.cycles
    mode,             \* Cpu.mode
    panicked,         \* the CPU thread has panicked (todo!, panic!, checked overflow)
    little_endian,    \* the build target's byte order (to_ne_bytes / from_ne_bytes)
    overflow_checks,  \* the build profile: debug (checked +,-) or release (wrapping)
    trace,            \* the operations applied so far, each with the state it was applied to
    run_at,           \* where Cpu::run stands: "new" until run is called
    draw,             \* the locals of run's draw loop: round _i, send within it, x and y
    chan,             \* Bus.gpu_sender and the channel to the Gpu behind it
    game_window       \* the Gpu's Window.game_window: its screen buffer

vars ==
    <<registers, mem, cycles, mode, panicked, little_endian, overflow_checks, trace, run_at,
      draw, chan, game_window>>

\* ------------------------------------------------------------- bounds

\* The number of register-file operations a behaviour of SpecReg applies.
MaxRegOps == 2
\* The number of steps a behaviour of Spec applies.
MaxSteps == 2
\* The number of draw signals a live channel is given.
MaxSignals == 5
\* The number of pixels a behaviour of SpecDraw sends to the Gpu.
MaxPixels == 2

\* ------------------------------------------------------------- integers

\* F applied to the value of e, e being evaluated once.
Let(e, F(_)) == CHOOSE r \in {F(x) : x \in {e}} : TRUE

RECURSIVE BitOp(_, _, _, _)
\* The bitwise combination of x and y over their n low bits; f is the truth
\* table of the operation as a tuple indexed by 1 + bit(x) + 2*bit(y).
BitOp(f, x, y, n) ==
    IF n = 0 THEN 0
    ELSE f[1 + (x % 2) + 2 * (y % 2)] + 2 * BitOp(f, x \div 2, y \div 2, n - 1)

BitAnd(x, y) == BitOp(<<0, 0, 0, 1>>, x, y, 16)
BitOr(x, y) == BitOp(<<0, 1, 1, 1>>, x, y, 16)
BitXor(x, y) == BitOp(<<0, 1, 1, 0>>, x, y, 16)

\* ------------------------------------------------------------- register file

V8 == {"A", "B", "C", "D", "E", "F", "H", "L"}
V16 == {"AF", "BC", "DE", "HL", "PC", "SP"}

\* u16::to_ne_bytes: the two bytes in memory order, element 1 being Rust's [0].
ToNeBytes(w) ==
    IF little_endian THEN <<w % 256, w \div 256>> ELSE <<w \div 256, w % 256>>

\* u16::from_ne_bytes([b0, b1])
FromNeBytes(b0, b1) ==
    IF little_endian THEN b0 + 256 * b1 ELSE 256 * b0 + b1

\* The cell of a 16-bit register in Cpu.registers.
V16Index(r) ==
    CASE r = "BC" -> 0
      [] r = "DE" -> 1
      [] r = "HL" -> 2
      [] r = "AF" -> 3
      [] r = "PC" -> 4
      [] r = "SP" -> 5

\* V16::from with the AF entry left out, so that PC moves up to 3.
V16FromWithoutAF(v) ==
    CASE v = 0 -> "BC"
      [] v = 1 -> "DE"
      [] v = 2 -> "HL"
      [] v = 3 -> "PC"
      [] OTHER -> "SP"

\* impl From<u8> for V16; values above 5 panic (see V16FromPanics).
V16From(v) ==
    CASE v = 0 -> "BC"
      [] v = 1 -> "DE"
      [] v = 2 -> "HL"
      [] v = 3 -> "AF"
      [] v = 4 -> "PC"
      [] OTHER -> "SP"

V16FromPanics(v) == v > 5

\* impl Read for V16
V16Read(regs, r) == regs[V16Index(r)]

\* impl Write for V16
V16Write(regs, r, v) == [regs EXCEPT ![V16Index(r)] = v]

\* The cell an 8-bit register is read from (the closures' argument i).
V8Cell(r) ==
    CASE r \in {"B", "C"} -> 0
      [] r \in {"D", "E"} -> 1
      [] r \in {"H", "L"} -> 2
      [] r \in {"A", "F"} -> 3

\* Whether the register is read by the closure `left` (byte [0]) or `right` (byte [1]).
V8IsLeft(r) == r \in {"B", "D", "H", "A"}

\* impl Read for V8
V8Read(regs, r) ==
    IF V8IsLeft(r) THEN ToNeBytes(regs[V8Cell(r)])[1] ELSE ToNeBytes(regs[V8Cell(r)])[2]

\* The cell the 8-bit write stores its result into: registers[0] in every arm.
V8WriteCell(r) == 0

\* impl Write for V8: set_left / set_right build the new word from cell i, and
\* the match arm stores it.
V8Write(regs, r, v) ==
    LET i == V8Cell(r)
        word == IF V8IsLeft(r)
                THEN FromNeBytes(v, ToNeBytes(regs[i])[2])
                ELSE FromNeBytes(ToNeBytes(regs[i])[1], v)
    IN  [regs EXCEPT ![V8WriteCell(r)] = word]

\* ------------------------------------------------------------- bus

\* Bus::fetch: the byte at index; a byte never written is zero.
Fetch(m, index) == IF index \in DOMAIN m THEN m[index] ELSE 0

\* Bus::write_mem: the image with the byte at addr overwritten.
WriteMem(m0, addr, content) ==
    Let(m0, LAMBDA m :
        [x \in (IF content = 0 THEN DOMAIN m \ {addr} ELSE DOMAIN m \cup {addr}) |->
            IF x = addr THEN content ELSE m[x]])

\* ------------------------------------------------------------- draw channel

\* The locals of the draw loop in Cpu::run outside a round.
NoDraw == [i |-> 0, k |-> 0, x |-> 0, y |-> 0]

\* Bus::default: gpu_sender is None.
NoSink == [sender |-> FALSE, alive |-> FALSE, queue |-> << >>, observed |-> << >>, sent |-> << >>]

\* Bus::with_gpu over the sender of mpsc::channel(), whose Receiver the Gba keeps
\* for its Gpu. `sent` is the history of the signals the channel accepted and
\* `observed` the signals the Gpu processed.
LiveSink == [sender |-> TRUE, alive |-> TRUE, queue |-> << >>, observed |-> << >>, sent |-> << >>]

\* The sender of a channel whose Receiver has been dropped.
DeadSink == [sender |-> TRUE, alive |-> FALSE, queue |-> << >>, observed |-> << >>, sent |-> << >>]

\* send_gpu_signal over a channel that hands the newest signal out first.
SendGpuSignalNewestFirst(ch, signal) ==
    IF ~ch.sender THEN ch
    ELSE IF ~ch.alive THEN ch
    ELSE [ch EXCEPT !.queue = <<signal>> \o @, !.sent = Append(@, signal)]

\* Bus::send_gpu_signal: nothing without a sender; Sender::send on the unbounded
\* channel queues the signal, or returns an Err that `let _ =` drops when the
\* Receiver is gone.
SendGpuSignal(ch, signal) ==
    IF ~ch.sender THEN ch
    ELSE IF ~ch.alive THEN ch
    ELSE [ch EXCEPT !.queue = Append(@, signal), !.sent = Append(@, signal)]

\* ------------------------------------------------------------- game window

GAME_SCREEN_WIDTH == 160
GAME_SCREEN_HEIGHT == 144

\* GameWindow::default: a screen buffer of GAME_SCREEN_HEIGHT * GAME_SCREEN_WIDTH
\* zero bytes, kept as the map of its non-zero cells. `panicked` records that an
\* access to the buffer was out of bounds.
GameWindowDefault == [screen_buffer |-> << >>, panicked |-> FALSE]

\* The cell draw_pixel addresses.
ScreenIndex(x, y) == x * GAME_SCREEN_WIDTH + y

\* GameWindow::draw_pixel: self.screen_buffer[x * GAME_SCREEN_WIDTH + y] = color
\* as u8, an indexing of the array that panics outside its length.
GameWindowDrawPixel(gw, x, y, color) ==
    IF gw.panicked THEN gw
    ELSE IF ScreenIndex(x, y) >= GAME_SCREEN_HEIGHT * GAME_SCREEN_WIDTH
         THEN [gw EXCEPT !.panicked = TRUE]
         ELSE [gw EXCEPT !.screen_buffer = WriteMem(@, ScreenIndex(x, y), color % 256)]

\* Window::process_draw_signal
ProcessDrawSignal(gw, signal) == GameWindowDrawPixel(gw, signal.x, signal.y, signal.color)

\* ------------------------------------------------------------- cpu primitives
\* A cpu value c is the record [registers, mem, cycles, accesses, panicked] of the
\* Cpu while one operation runs; once c.panicked holds the thread is unwinding
\* and nothing more is done to c. c.accesses counts the register and bus
\* accesses the operation has made, charged or not.

CpuOf(regs, m, n) ==
    [registers |-> regs, mem |-> m, cycles |-> n, accesses |-> 0, panicked |-> FALSE]

ThisCpu == CpuOf(registers, mem, cycles)

Panic(c) == [c EXCEPT !.panicked = TRUE]

\* A checked arithmetic operation: overflowed says the exact result left the type.
Checked(c, overflowed) == IF overflow_checks /\ overflowed THEN Panic(c) ELSE c

\* Cpu::incr_cycles
IncrCycles(c0) == Let(c0, LAMBDA c : IF c.panicked THEN c ELSE [c EXCEPT !.cycles = @ + 1])

\* k accesses of a register or of the bus that charge nothing.
Uncharged(c0, k) ==
    Let(c0, LAMBDA c : IF c.panicked THEN c ELSE [c EXCEPT !.accesses = @ + k])

\* Cpu::r charges one cycle; the value read is R8(c, reg) or R16(c, reg).
R(c) == Uncharged(IncrCycles(c), 1)
R8(c, reg) == V8Read(c.registers, reg)
R16(c, reg) == V16Read(c.registers, reg)

\* Cpu::w for an 8-bit register
W8(c0, reg, value) ==
    Let(c0, LAMBDA c : IF c.panicked THEN c
                       ELSE [R(c) EXCEPT !.registers = V8Write(@, reg, value)])

\* Cpu::w for a 16-bit register
W16(c0, reg, value) ==
    Let(c0, LAMBDA c : IF c.panicked THEN c
                       ELSE [R(c) EXCEPT !.registers = V16Write(@, reg, value)])

\* Cpu::write_mem16_raw
WriteMem16Raw(c0, addr, content) ==
    Let(c0, LAMBDA c : IF c.panicked THEN c
                       ELSE [Uncharged(c, 1) EXCEPT !.mem = WriteMem(@, addr, content)])

\* Cpu::write_mem8: two charged register reads, then the store.
WriteMem8(c, addr, content) ==
    WriteMem16Raw(R(R(c)), R16(c, addr), R8(c, content))

\* Cpu::next_byte: self.pc() charges a cycle; the byte is fetched at PC itself.
NextByte(c) == Fetch(c.mem, R16(c, "PC"))

\* Cpu::next_word: two next_byte calls, both at the same PC.
NextWord(c) == FromNeBytes(NextByte(c), NextByte(c))

\* ------------------------------------------------------------- flags

\* The masks the flag getters test and the flag setters change.
SubtractMask == 128
ZeroMask == 64
HalfCarryMask == 32
CarryMask == 16

\* subtract_flag / zero_flag / half_carry_flag / carry_flag: the value read; each
\* call also charges one cycle (R).
FlagOf(c, mask) == BitAnd(R8(c, "F"), mask) # 0
SubtractFlag(c) == FlagOf(c, SubtractMask)
ZeroFlag(c) == FlagOf(c, ZeroMask)
HalfCarryFlag(c) == FlagOf(c, HalfCarryMask)
CarryFlag(c) == FlagOf(c, CarryMask)

\* The body shared by the set_* helpers: read F and write it back with the mask
\* or-ed in when v holds and xor-ed otherwise; neither access is charged.
SetFlagRegs(regs, mask, v) ==
    LET current == V8Read(regs, "F")
    IN  IF v THEN V8Write(regs, "F", BitOr(current, mask))
        ELSE V8Write(regs, "F", BitXor(current, mask))

SetFlag(c0, mask, v) ==
    Let(c0, LAMBDA c : IF c.panicked THEN c
                       ELSE [Uncharged(c, 2) EXCEPT !.registers = SetFlagRegs(@, mask, v)])

SetSubtract(c, v) == SetFlag(c, SubtractMask, v)
SetCarry(c, v) == SetFlag(c, CarryMask, v)
SetHalfCarry(c, v) == SetFlag(c, HalfCarryMask, v)
SetZero(c, v) == SetFlag(c, ZeroMask, v)

\* set_half_carry_add
SetHalfCarryAdd(c, v1, v2) == SetFlag(c, HalfCarryMask, (v1 % 16) + (v2 % 16) > 15)

\* set_half_carry_sub
SetHalfCarrySub(c, v1, v2) == SetFlag(c, HalfCarryMask, (v2 % 16) > (v1 % 16))

\* ------------------------------------------------------------- executor
\* Each Exec* operator is one arm of Cpu::execute: c is the cpu when the arm
\* starts, n0 and n1 are the opcode's high and low nibble; the value is the cpu
\* when the arm ends with the AddressMove it returns.

\* AddressMove::Add(k) and AddressMove::To(a)
Add(k) == [kind |-> "Add", n |-> k]
To(a) == [kind |-> "To", n |-> a]

Res(c, move) == [cpu |-> c, move |-> move]

\* An arm that ends in panic!() or todo!().
Panics(c) == Res(Panic(c), Add(0))

\* u16 and u8 arithmetic: the wrapped result; the checked operators (+, -) also
\* panic on overflow when the build checks it (Checked).
WrapAdd16(x, k) == (x + k) % 65536
WrapSub16(x, k) == (x - k + 65536) % 65536
WrapAdd8(x, k) == (x + k) % 256
WrapSub8(x, k) == (x - k + 256) % 256

\* Nop
ExecNop(c, n0, n1) == Res(c, Add(1))

\* Load16Mem
ExecLoad16Mem(c, n0, n1) ==
    LET new == NextWord(c)
        c1 == R(R(c))
    IN  IF V16FromPanics(n0) THEN Panics(c1)
        ELSE Res(W16(c1, V16From(n0), new), Add(3))

\* Store8Mem: the address register, "" where the match panics.
Store8MemAddress(n0, n1) ==
    CASE n0 = 0 /\ n1 = 2 -> "BC"
      [] n0 = 1 /\ n1 = 2 -> "DE"
      [] n0 = 7 -> "HL"
      [] OTHER -> ""

\* A content match that stores A whatever the column.
Store8MemContentAlwaysA(n0, n1) ==
    CASE n0 \in 0..2 /\ n1 = 2 -> "A"
      [] n0 = 7 /\ n1 \in (0..5) \cup {7} -> "A"
      [] OTHER -> ""

\* Store8Mem: the content register, "" where the match panics.
Store8MemContent(n0, n1) ==
    CASE n0 \in 0..2 /\ n1 = 2 -> "A"
      [] n0 = 7 /\ n1 = 0 -> "B"
      [] n0 = 7 /\ n1 = 1 -> "C"
      [] n0 = 7 /\ n1 = 2 -> "D"
      [] n0 = 7 /\ n1 = 3 -> "E"
      [] n0 = 7 /\ n1 = 4 -> "H"
      [] n0 = 7 /\ n1 = 5 -> "L"
      [] n0 = 7 /\ n1 = 7 -> "A"
      [] OTHER -> ""

ExecStore8Mem(c, n0, n1) ==
    LET address == Store8MemAddress(n0, n1)
        content == Store8MemContent(n0, n1)
    IN  IF address = "" \/ content = "" THEN Panics(c)
        ELSE Res(WriteMem8(c, address, content), Add(1))

\* The pair the arithmetic-family arms select by n0, "" where the match panics.
Pair16(n0) ==
    CASE n0 = 0 -> "BC"
      [] n0 = 1 -> "DE"
      [] n0 = 2 -> "HL"
      [] n0 = 3 -> "SP"
      [] OTHER -> ""

\* Decrement16
ExecDecrement16(c, n0, n1) ==
    LET old_reg == Pair16(n0)
        old == R16(c, old_reg)
        c1 == SetHalfCarry(SetSubtract(SetZero(R(c), old = 1), TRUE), old = 256)
    IN  IF old_reg = "" THEN Panics(c)
        ELSE Res(W16(c1, old_reg, WrapSub16(old, 1)), Add(1))

\* Increment16
ExecIncrement16(c, n0, n1) ==
    LET reg == V16From(n0)
        old == R16(c, reg)
        c1 == SetHalfCarry(SetSubtract(SetZero(R(c), old = 65535), FALSE), old = 255)
    IN  IF V16FromPanics(n0) THEN Panics(c)
        ELSE Res(W16(c1, reg, WrapAdd16(old, 1)), Add(1))

\* The register Increment8 / Decrement8 / Load8Mem select: low is the low nibble
\* of the left column (4, 5 or 6), the right column being low + 8.
Reg8ByColumn(n0, n1, low) ==
    CASE n0 = 0 /\ n1 = low -> "B"
      [] n0 = 1 /\ n1 = low -> "D"
      [] n0 = 2 /\ n1 = low -> "H"
      [] n0 = 0 /\ n1 = low + 8 -> "C"
      [] n0 = 1 /\ n1 = low + 8 -> "E"
      [] n0 = 2 /\ n1 = low + 8 -> "L"
      [] n0 = 3 /\ n1 = low + 8 -> "A"
      [] OTHER -> ""

\* Increment8
ExecIncrement8(c, n0, n1) ==
    LET reg == Reg8ByColumn(n0, n1, 4)
        old == R8(c, reg)
        c1 == SetHalfCarry(SetSubtract(SetZero(R(c), old = 255), FALSE), old = 15)
    IN  IF reg = "" THEN Panics(c)
        ELSE Res(W8(c1, reg, WrapAdd8(old, 1)), Add(1))

\* Decrement8
ExecDecrement8(c, n0, n1) ==
    LET reg == Reg8ByColumn(n0, n1, 5)
        old == R8(c, reg)
        c1 == SetHalfCarry(SetSubtract(SetZero(R(c), old = 1), TRUE), old = 16)
    IN  IF reg = "" THEN Panics(c)
        ELSE Res(W8(c1, reg, WrapSub8(old, 1)), Add(1))

\* Load8Mem
ExecLoad8Mem(c, n0, n1) ==
    LET n == NextByte(c)
        reg == Reg8ByColumn(n0, n1, 6)
    IN  IF reg = "" THEN Panics(R(c))
        ELSE Res(W8(R(c), reg, n), Add(2))

\* The flag updates shared by the four rotate helpers: carry is the helper's
\* carry argument.
RotateFlags(c, carry, v) ==
    SetHalfCarry(SetSubtract(SetZero(SetCarry(c, carry), v = 0), FALSE), FALSE)

\* rotate_left_circle: the cpu after the flag updates, and the value returned.
RotateLeftCircleCpu(c, v) == RotateFlags(c, BitAnd(v, 240) # 0, v)
RotateLeftCircleVal(v) == BitOr((2 * v) % 256, v \div 128)

\* rotate_left
RotateLeftCpu(c, v) == RotateFlags(c, BitAnd(v, 240) # 0, v)
RotateLeftVal(v) == (2 * v) % 256

\* rotate_right_circle
RotateRightCircleCpu(c, v) == RotateFlags(c, BitAnd(v, 0) # 0, v)
RotateRightCircleVal(v) == BitOr(v \div 2, ((v % 2) * 128) % 256)

\* rotate_right
RotateRightCpu(c, v) == RotateFlags(c, BitAnd(v, 0) # 0, v)
RotateRightVal(v) == v \div 2

\* RotateLeftCircle
ExecRotateLeftCircle(c, n0, n1) ==
    LET a == R8(c, "A")
    IN  Res(W8(RotateLeftCircleCpu(R(c), a), "A", RotateLeftCircleVal(a)), Add(1))

\* RotateRightCircle
ExecRotateRightCircle(c, n0, n1) ==
    LET a == R8(c, "A")
    IN  Res(W8(RotateRightCircleCpu(R(c), a), "A", RotateRightCircleVal(a)), Add(1))

\* RotateLeft
ExecRotateLeft(c, n0, n1) ==
    LET a == R8(c, "A")
    IN  Res(W8(RotateLeftCpu(R(c), a), "A", RotateLeftVal(a)), Add(1))

\* RotateRight
ExecRotateRight(c, n0, n1) ==
    LET a == R8(c, "A")
    IN  Res(W8(RotateRightCpu(R(c), a), "A", RotateRightVal(a)), Add(1))

\* StoreSP
ExecStoreSP(c, n0, n1) ==
    LET pos == NextWord(c)
        content == ToNeBytes(R16(c, "SP"))
        c1 == WriteMem16Raw(R(R(R(c))), pos, content[1])
        c2 == Checked(c1, pos + 1 > 65535)
    IN  Res(WriteMem16Raw(c2, WrapAdd16(pos, 1), content[2]), Add(1))

\* Add16toHL
ExecAdd16toHL(c, n0, n1) ==
    LET current == R16(c, "HL")
        reg == Pair16(n0)
        add == R16(c, reg)
        new == WrapAdd16(current, add)
        overflow == current + add > 65535
        c1 == SetSubtract(SetCarry(R(R(c)), overflow), FALSE)
        c2 == SetHalfCarry(c1, BitAnd(BitXor(BitXor(current, add), new), 4096) # 0)
    IN  IF reg = "" THEN Panics(R(c))
        ELSE Res(W16(c2, "HL", new), Add(1))

\* Stop
ExecStop(c, n0, n1) == Panics(c)

\* JumpRelative: whether the arm's condition holds; the flag read charges a cycle.
JumpRelativeKnown(n0, n1) == <<n0, n1>> \in {<<1, 8>>, <<2, 8>>, <<3, 8>>, <<2, 0>>, <<3, 0>>}
JumpRelativeTaken(c, n0, n1) ==
    CASE n0 = 1 /\ n1 = 8 -> TRUE
      [] n0 = 2 /\ n1 = 8 -> ZeroFlag(c)
      [] n0 = 3 /\ n1 = 8 -> CarryFlag(c)
      [] n0 = 2 /\ n1 = 0 -> ~ZeroFlag(c)
      [] n0 = 3 /\ n1 = 0 -> ~CarryFlag(c)
      [] OTHER -> FALSE

ExecJumpRelative(c, n0, n1) ==
    LET distance == NextByte(c)
        old == R16(c, "PC")
        c1 == R(R(c))
        c2 == IF n0 = 1 THEN c1 ELSE R(c1)
    IN  IF ~JumpRelativeKnown(n0, n1) THEN Panics(c1)
        ELSE IF JumpRelativeTaken(c, n0, n1)
             THEN Res(Checked(c2, old + distance > 65535), To(WrapAdd16(old, distance)))
             ELSE Res(c2, Add(2))

\* StoreHlIncr
ExecStoreHlIncr(c, n0, n1) ==
    LET c1 == WriteMem8(c, "HL", "A")
        hl == R16(c1, "HL")
    IN  Res(W16(R(c1), "HL", WrapAdd16(hl, 1)), Add(1))

\* StoreHlDecr
ExecStoreHlDecr(c, n0, n1) ==
    LET c1 == WriteMem8(c, "HL", "A")
        hl == R16(c1, "HL")
    IN  Res(W16(R(c1), "HL", WrapSub16(hl, 1)), Add(1))

\* Daa
ExecDaa(c, n0, n1) ==
    LET a == R8(c, "A")
        sub == SubtractFlag(c)
        low == HalfCarryFlag(c) \/ (sub /\ a % 16 > 9)
        high == CarryFlag(c) \/ (sub /\ a >= 160)
        adjust == (IF low THEN 6 ELSE 0) + (IF high THEN 96 ELSE 0)
        res == WrapAdd8(a, adjust)
        c1 == W8(R(R(R(R(c)))), "A", res)
    IN  Res(SetHalfCarry(SetZero(SetCarry(c1, a + adjust > 255), res = 0), FALSE), Add(1))

\* Load8MemHlIncr
ExecLoad8MemHlIncr(c, n0, n1) ==
    LET position == R16(c, "HL")
        content == Fetch(c.mem, position)
    IN  Res(W16(W8(R(c), "A", content), "HL", WrapAdd16(position, 1)), Add(1))

\* Load8MemHlDecr
ExecLoad8MemHlDecr(c, n0, n1) ==
    LET position == R16(c, "HL")
        content == Fetch(c.mem, position)
    IN  Res(W16(W8(R(c), "A", content), "HL", WrapSub16(position, 1)), Add(1))

\* ComplementA
ExecComplementA(c, n0, n1) ==
    LET old == R8(c, "A")
    IN  Res(SetSubtract(SetHalfCarry(W8(R(c), "A", 255 - old), TRUE), TRUE), Add(1))

\* IncMemHl
ExecIncMemHl(c, n0, n1) ==
    LET hl == R16(c, "HL")
        n == Fetch(c.mem, hl)
        res == WrapAdd8(n, 1)
        c1 == WriteMem16Raw(R(c), hl, res)
        c2 == SetHalfCarry(SetSubtract(SetCarry(c1, n + 1 > 255), FALSE), n = 15)
    IN  Res(WriteMem16Raw(c2, hl, res), Add(1))

\* DecMemHl
ExecDecMemHl(c, n0, n1) ==
    LET hl == R16(c, "HL")
        n == Fetch(c.mem, hl)
        res == WrapSub8(n, 1)
        c1 == WriteMem16Raw(R(c), hl, res)
        c2 == SetHalfCarry(SetSubtract(SetCarry(c1, n < 1), TRUE), n = 15)
    IN  Res(WriteMem16Raw(c2, hl, res), Add(1))

\* StoreXMemHl
ExecStoreXMemHl(c, n0, n1) ==
    LET x == NextByte(c)
        hl == R16(c, "HL")
    IN  Res(WriteMem16Raw(R(R(c)), hl, x), Add(1))

\* SetCarryFlag
ExecSetCarryFlag(c, n0, n1) ==
    Res(SetZero(SetHalfCarry(SetCarry(c, TRUE), FALSE), FALSE), Add(1))

\* FlipCarryFlag
ExecFlipCarryFlag(c, n0, n1) ==
    LET current == CarryFlag(c)
    IN  Res(SetCarry(R(c), ~current), Add(1))

\* Load8into8: the destination register, "" where the match panics.
Load8into8Into(n0, n1) ==
    LET left == n1 \in {0, 1, 2, 3, 4, 5, 7}
        right == n1 \in {8, 9, 10, 11, 12, 13, 15}
    IN  CASE n0 = 4 /\ left -> "B"
          [] n0 = 4 /\ right -> "C"
          [] n0 = 5 /\ left -> "D"
          [] n0 = 5 /\ right -> "E"
          [] n0 = 6 /\ left -> "H"
          [] n0 = 6 /\ right -> "L"
          [] n0 = 7 -> "A"
          [] OTHER -> ""

\* Load8into8: the source register, "" where the match panics.
Load8into8From(n1) ==
    CASE n1 \in {0, 8} -> "B"
      [] n1 \in {1, 9} -> "C"
      [] n1 \in {2, 10} -> "D"
      [] n1 \in {3, 11} -> "E"
      [] n1 \in {4, 12} -> "H"
      [] n1 \in {5, 13} -> "L"
      [] n1 \in {7, 15} -> "A"
      [] OTHER -> ""

ExecLoad8into8(c, n0, n1) ==
    LET into == Load8into8Into(n0, n1)
        from == Load8into8From(n1)
    IN  IF into = "" \/ from = "" THEN Panics(c)
        ELSE Res(W8(R(c), into, R8(c, from)), Add(1))

\* Load16Meminto8: the address register, "" where the match panics.
Load16Meminto8Addr(n0, n1) ==
    CASE n0 \in {0, 1} /\ n1 = 10 -> IF n0 = 0 THEN "BC" ELSE "DE"
      [] n0 \in {4, 5, 6} /\ n1 = 6 -> "HL"
      [] n0 \in {4, 5, 6, 7} /\ n1 = 14 -> "HL"
      [] OTHER -> ""

\* Load16Meminto8: the destination register.
Load16Meminto8Into(n0, n1) ==
    CASE n0 \in {0, 1} /\ n1 = 10 -> "A"
      [] n0 = 4 /\ n1 = 6 -> "B"
      [] n0 = 5 /\ n1 = 6 -> "D"
      [] n0 = 6 /\ n1 = 6 -> "H"
      [] n0 = 4 /\ n1 = 14 -> "C"
      [] n0 = 5 /\ n1 = 14 -> "E"
      [] n0 = 6 /\ n1 = 14 -> "L"
      [] n0 = 7 /\ n1 = 14 -> "A"
      [] OTHER -> ""

ExecLoad16Meminto8(c, n0, n1) ==
    LET addr_reg == Load16Meminto8Addr(n0, n1)
        into == Load16Meminto8Into(n0, n1)
        addr == R16(c, addr_reg)
    IN  IF addr_reg = "" \/ into = "" THEN Panics(c)
        ELSE Res(W8(R(c), into, Fetch(c.mem, addr)), Add(1))

\* Halt
ExecHalt(c, n0, n1) == Panics(c)

\* The operand register of the ALU arms whose opcodes end in 0..7: by n1, ""
\* where the match panics.
Reg8Low(n1) ==
    CASE n1 = 0 -> "B"
      [] n1 = 1 -> "C"
      [] n1 = 2 -> "D"
      [] n1 = 3 -> "E"
      [] n1 = 4 -> "H"
      [] n1 = 5 -> "L"
      [] n1 = 7 -> "A"
      [] OTHER -> ""

\* The operand register of the ALU arms whose opcodes end in 8..F.
Reg8High(n1) ==
    CASE n1 = 8 -> "B"
      [] n1 = 9 -> "C"
      [] n1 = 10 -> "D"
      [] n1 = 11 -> "E"
      [] n1 = 12 -> "H"
      [] n1 = 13 -> "L"
      [] n1 = 15 -> "A"
      [] OTHER -> ""

\* Add8toA
ExecAdd8toA(c, n0, n1) ==
    LET reg == Reg8Low(n1)
        a == R8(c, "A")
        add == R8(c, reg)
        res == WrapAdd8(a, add)
        c1 == SetSubtract(SetZero(SetCarry(R(R(c)), a + add > 255), res = 0), FALSE)
    IN  IF reg = "" THEN Panics(c)
        ELSE Res(W8(SetHalfCarryAdd(c1, a, add), "A", res), Add(1))

\* AddMemToA
ExecAddMemToA(c, n0, n1) ==
    LET hl == R16(c, "HL")
        content == Fetch(c.mem, hl)
        a == R8(c, "A")
        res == WrapAdd8(a, content)
        c1 == SetSubtract(SetZero(SetCarry(R(R(c)), a + content > 255), res = 0), FALSE)
    IN  Res(W8(SetHalfCarryAdd(c1, a, content), "A", res), Add(1))

\* Add8AndFlagToA
ExecAdd8AndFlagToA(c, n0, n1) ==
    LET add_reg == Reg8High(n1)
        adder == R8(c, add_reg)
        carry == IF CarryFlag(c) THEN 1 ELSE 0
        a == R8(c, "A")
        res == WrapAdd8(WrapAdd8(a, adder), carry)
        c1 == SetSubtract(SetZero(SetCarry(R(R(R(c))), a + adder + carry > 255), res = 0), FALSE)
        c2 == Checked(c1, adder + carry > 255)
    IN  IF add_reg = "" THEN Panics(c)
        ELSE Res(W8(SetHalfCarryAdd(c2, a, WrapAdd8(adder, carry)), "A", res), Add(1))

\* AddMemHlAndFlagToA
ExecAddMemHlAndFlagToA(c, n0, n1) ==
    LET position == R16(c, "HL")
        adder == Fetch(c.mem, position)
        carry == IF CarryFlag(c) THEN 1 ELSE 0
        a == R8(c, "A")
        res == WrapAdd8(WrapAdd8(a, adder), carry)
        c1 == SetSubtract(SetZero(SetCarry(R(R(R(c))), a + adder + carry > 255), res = 0), FALSE)
        c2 == Checked(c1, adder + carry > 255)
    IN  Res(SetHalfCarryAdd(c2, a, WrapAdd8(adder, carry)), Add(1))

\* Sub8fromA
ExecSub8fromA(c, n0, n1) ==
    LET sub_reg == Reg8Low(n1)
        sub == R8(c, sub_reg)
        a == R8(c, "A")
        res == WrapSub8(a, sub)
        c1 == SetSubtract(SetZero(SetCarry(R(R(c)), a < sub), res = 0), TRUE)
    IN  IF sub_reg = "" THEN Panics(c)
        ELSE Res(SetHalfCarrySub(c1, a, sub), Add(1))

\* SubMemToA
ExecSubMemToA(c, n0, n1) ==
    LET hl == R16(c, "HL")
        content == Fetch(c.mem, hl)
        a == R8(c, "A")
        res == WrapSub8(a, content)
        c1 == SetSubtract(SetZero(SetCarry(R(R(c)), a < content), res = 0), TRUE)
    IN  Res(W8(SetHalfCarrySub(c1, a, content), "A", res), Add(1))

\* Sub8AndFlagToA
ExecSub8AndFlagToA(c, n0, n1) ==
    LET sub_reg == Reg8High(n1)
        content == R8(c, sub_reg)
        a == R8(c, "A")
        res == WrapSub8(a, content)
        c1 == SetSubtract(SetZero(SetCarry(R(R(c)), a < content), res = 0), TRUE)
    IN  IF sub_reg = "" THEN Panics(c)
        ELSE Res(W8(SetHalfCarrySub(c1, a, content), "A", res), Add(1))

\* SubMemHlAndFlagToA
ExecSubMemHlAndFlagToA(c, n0, n1) ==
    LET hl == R16(c, "HL")
        content == Fetch(c.mem, hl)
        a == R8(c, "A")
        res == WrapSub8(a, content)
        c1 == SetSubtract(SetZero(SetCarry(R(R(c)), a < content), res = 0), TRUE)
    IN  Res(W8(SetHalfCarrySub(c1, a, content), "A", res), Add(1))

\* The flag updates of the And arms, in the code's order.
AndFlags(c, res) == SetCarry(SetHalfCarry(SetSubtract(SetZero(c, res = 0), FALSE), TRUE), FALSE)

\* The flag updates of the Or and Xor register and (HL) arms.
OrXorFlags(c, res) == SetCarry(SetHalfCarry(SetSubtract(SetZero(c, res = 0), FALSE), FALSE), FALSE)

\* And8A
ExecAnd8A(c, n0, n1) ==
    LET reg == Reg8Low(n1)
        res == BitAnd(R8(c, "A"), R8(c, reg))
    IN  IF reg = "" THEN Panics(c)
        ELSE Res(W8(AndFlags(R(R(c)), res), "A", res), Add(1))

\* AndMemHlA
ExecAndMemHlA(c, n0, n1) ==
    LET content == Fetch(c.mem, R16(c, "HL"))
        res == BitAnd(R8(c, "A"), content)
    IN  Res(W8(AndFlags(R(R(c)), res), "A", res), Add(1))

\* Xor8A
ExecXor8A(c, n0, n1) ==
    LET xor_reg == Reg8High(n1)
        res == BitXor(R8(c, "A"), R8(c, xor_reg))
    IN  IF xor_reg = "" THEN Panics(c)
        ELSE Res(W8(OrXorFlags(R(R(c)), res), "A", res), Add(1))

\* XorMemHlA
ExecXorMemHlA(c, n0, n1) ==
    LET xor == Fetch(c.mem, R16(c, "HL"))
        res == BitXor(R8(c, "A"), xor)
    IN  Res(W8(OrXorFlags(R(R(c)), res), "A", res), Add(1))

\* Or8A
ExecOr8A(c, n0, n1) ==
    LET reg == Reg8Low(n1)
        res == BitOr(R8(c, "A"), R8(c, reg))
    IN  IF reg = "" THEN Panics(c)
        ELSE Res(W8(OrXorFlags(R(R(c)), res), "A", res), Add(1))

\* OrMemHlA
ExecOrMemHlA(c, n0, n1) ==
    LET content == Fetch(c.mem, R16(c, "HL"))
        res == BitOr(R8(c, "A"), content)
    IN  Res(W8(OrXorFlags(R(R(c)), res), "A", res), Add(1))

\* The flag updates of Compare8A and CompareMemHlA, in the code's order.
CompareFlags(c, a, cmp) ==
    SetCarry(SetSubtract(SetHalfCarrySub(SetZero(c, a = cmp), a, cmp), TRUE), a < cmp)

\* Compare8A
ExecCompare8A(c, n0, n1) ==
    LET reg == Reg8Low(n1)
    IN  IF reg = "" THEN Panics(c)
        ELSE Res(CompareFlags(R(R(c)), R8(c, "A"), R8(c, reg)), Add(1))

\* CompareMemHlA
ExecCompareMemHlA(c, n0, n1) ==
    LET cmp == Fetch(c.mem, R16(c, "HL"))
    IN  Res(CompareFlags(R(R(c)), R8(c, "A"), cmp), Add(1))

\* The condition of ReturnIfFlag, JumpIfFlag and CallIfFlag: low is the low
\* nibble of the NZ / NC column (0, 2 or 4), the Z / C column being low + 8.
FlagCondKnown(n0, n1, low) == n0 \in {12, 13} /\ n1 \in {low, low + 8}
FlagCond(c, n0, n1, low) ==
    CASE n0 = 12 /\ n1 = low -> ~ZeroFlag(c)
      [] n0 = 13 /\ n1 = low -> ~CarryFlag(c)
      [] n0 = 12 /\ n1 = low + 8 -> ZeroFlag(c)
      [] n0 = 13 /\ n1 = low + 8 -> CarryFlag(c)
      [] OTHER -> FALSE

\* The body of Return and of a taken ReturnIfFlag.
ReturnBody(c) ==
    LET sp == R16(c, "SP")
        lower == Fetch(c.mem, sp)
        c1 == Checked(R(c), sp + 1 > 65535)
        upper == Fetch(c.mem, WrapAdd16(sp, 1))
        c2 == Checked(c1, sp + 2 > 65535)
    IN  Res(W16(c2, "SP", WrapAdd16(sp, 2)), To(FromNeBytes(lower, upper)))

\* ReturnIfFlag
ExecReturnIfFlag(c, n0, n1) ==
    IF ~FlagCondKnown(n0, n1, 0) THEN Panics(c)
    ELSE IF FlagCond(c, n0, n1, 0) THEN ReturnBody(R(c))
         ELSE Res(R(c), Add(1))

\* The pair the stack-family arms select by n0, "" where the match panics.
StackPair(n0) ==
    CASE n0 = 12 -> "BC"
      [] n0 = 13 -> "DE"
      [] n0 = 14 -> "HL"
      [] n0 = 15 -> "AF"
      [] OTHER -> ""

\* Pop16
ExecPop16(c, n0, n1) ==
    LET to == StackPair(n0)
        sp == R16(c, "SP")
        lower == Fetch(c.mem, sp)
        c1 == Checked(R(c), sp + 1 > 65535)
        upper == Fetch(c.mem, WrapAdd16(sp, 1))
        c2 == W16(c1, to, FromNeBytes(lower, upper))
        c3 == Checked(c2, sp + 2 > 65535)
    IN  IF to = "" THEN Panics(c)
        ELSE Res(W16(c3, "SP", WrapAdd16(sp, 2)), Add(1))

\* JumpIfFlag
ExecJumpIfFlag(c, n0, n1) ==
    LET addr == NextWord(c)
        c1 == R(R(c))
    IN  IF ~FlagCondKnown(n0, n1, 2) THEN Panics(c1)
        ELSE IF FlagCond(c, n0, n1, 2) THEN Res(R(c1), To(addr))
             ELSE Res(R(c1), Add(1))

\* Jump16
ExecJump16(c, n0, n1) ==
    CASE n1 = 3 -> Res(R(R(c)), To(NextWord(c)))
      [] n1 = 9 -> Res(R(c), To(R16(c, "HL")))
      [] OTHER -> Panics(c)

\* The stores of a return address and the new SP, as Push16, CallN and Call do
\* them: content is the word's to_ne_bytes.
PushBytes(c, sp, content) ==
    LET c1 == WriteMem16Raw(Checked(c, sp < 2), WrapSub16(sp, 2), content[1])
        c2 == WriteMem16Raw(Checked(c1, sp < 1), WrapSub16(sp, 1), content[2])
    IN  W16(Checked(c2, sp < 2), "SP", WrapSub16(sp, 2))

\* CallIfFlag
ExecCallIfFlag(c, n0, n1) ==
    LET addr == NextWord(c)
        c1 == R(R(c))
        pc_bytes == ToNeBytes(R16(c, "PC"))
        sp == R16(c, "SP")
        c2 == W16(Checked(R(R(R(c1))), sp < 2), "SP", WrapSub16(sp, 2))
        c3 == WriteMem16Raw(c2, WrapSub16(sp, 2), pc_bytes[1])
        c4 == WriteMem16Raw(Checked(c3, sp < 1), WrapSub16(sp, 1), pc_bytes[2])
    IN  IF ~FlagCondKnown(n0, n1, 4) THEN Panics(c1)
        ELSE IF FlagCond(c, n0, n1, 4) THEN Res(c4, To(addr))
             ELSE Res(R(c1), Add(1))

\* Push16
ExecPush16(c, n0, n1) ==
    LET reg == StackPair(n0)
        content == ToNeBytes(R16(c, reg))
        sp == R16(c, "SP")
    IN  IF reg = "" THEN Panics(c)
        ELSE Res(PushBytes(R(R(c)), sp, content), Add(1))

\* Add8ImmToA
ExecAdd8ImmToA(c, n0, n1) ==
    LET add == NextByte(c)
        a == R8(c, "A")
        res == WrapAdd8(a, add)
        c1 == SetSubtract(SetZero(SetCarry(R(R(c)), a + add > 255), res = 0), FALSE)
    IN  Res(W8(SetHalfCarryAdd(c1, a, add), "A", res), Add(1))

\* Sub8ImmToA
ExecSub8ImmToA(c, n0, n1) ==
    LET sub == NextByte(c)
        a == R8(c, "A")
        res == WrapSub8(a, sub)
        c1 == SetSubtract(SetZero(SetCarry(R(R(c)), a < sub), res = 0), TRUE)
    IN  Res(SetHalfCarrySub(c1, a, sub), Add(1))

\* And8ImmToA
ExecAnd8ImmToA(c, n0, n1) ==
    LET res == BitAnd(R8(c, "A"), NextByte(c))
    IN  Res(W8(AndFlags(R(R(c)), res), "A", res), Add(1))

\* Or8ImmToA
ExecOr8ImmToA(c, n0, n1) ==
    LET res == BitOr(R8(c, "A"), NextByte(c))
    IN  Res(W8(OrXorFlags(R(R(c)), res), "A", res), Add(1))

\* CallN: the restart vector, -1 where the match panics.
CallNDest(n0, n1) ==
    CASE n0 = 12 /\ n1 = 7 -> 0
      [] n0 = 13 /\ n1 = 7 -> 16
      [] n0 = 14 /\ n1 = 7 -> 32
      [] n0 = 15 /\ n1 = 7 -> 48
      [] n0 = 12 /\ n1 = 15 -> 8
      [] n0 = 13 /\ n1 = 15 -> 24
      [] n0 = 14 /\ n1 = 15 -> 40
      [] n0 = 15 /\ n1 = 15 -> 56
      [] OTHER -> -1

ExecCallN(c, n0, n1) ==
    LET content == ToNeBytes(R16(c, "PC"))
        sp == R16(c, "SP")
        c1 == PushBytes(R(R(c)), sp, content)
    IN  IF CallNDest(n0, n1) < 0 THEN Panics(c1)
        ELSE Res(c1, To(CallNDest(n0, n1)))

\* Return
ExecReturn(c, n0, n1) == ReturnBody(c)

\* ReturnInterrupt
ExecReturnInterrupt(c, n0, n1) == Panics(c)

\* Call
ExecCall(c, n0, n1) ==
    LET new_pc == NextWord(c)
        position == ToNeBytes(R16(c, "PC"))
        sp == R16(c, "SP")
    IN  Res(PushBytes(R(R(R(R(c)))), sp, position), To(new_pc))

\* AddImmAndFlagToA
ExecAddImmAndFlagToA(c, n0, n1) ==
    LET add == NextByte(c)
        carry == IF CarryFlag(c) THEN 1 ELSE 0
        a == R8(c, "A")
        res == WrapAdd8(WrapAdd8(a, add), carry)
        c1 == SetSubtract(SetZero(SetCarry(R(R(R(c))), a + add + carry > 255), res = 0), FALSE)
        c2 == Checked(c1, add + carry > 255)
    IN  Res(W8(SetHalfCarryAdd(c2, a, WrapAdd8(add, carry)), "A", res), Add(1))

\* SubImmAndFlagToA
ExecSubImmAndFlagToA(c, n0, n1) ==
    LET sub == NextByte(c)
        carry == IF CarryFlag(c) THEN 1 ELSE 0
        a == R8(c, "A")
        res == WrapSub8(WrapSub8(a, sub), carry)
        c1 == SetSubtract(SetZero(SetCarry(R(R(R(c))), a < sub + carry), res = 0), TRUE)
        c2 == Checked(c1, sub + carry > 255)
    IN  Res(W8(SetHalfCarrySub(c2, a, WrapAdd8(sub, carry)), "A", res), Add(1))

\* XorImmToA
ExecXorImmToA(c, n0, n1) ==
    LET res == BitXor(R8(c, "A"), NextByte(c))
        c1 == SetHalfCarry(SetSubtract(SetZero(SetCarry(R(R(c)), FALSE), res = 0), FALSE), FALSE)
    IN  Res(W8(c1, "A", res), Add(1))

\* CompareImmToA
ExecCompareImmToA(c, n0, n1) ==
    LET cmp == NextByte(c)
        a == R8(c, "A")
        c1 == SetHalfCarrySub(SetZero(R(R(c)), a = cmp), a, cmp)
    IN  Res(SetSubtract(SetCarry(c1, a < cmp), TRUE), Add(1))

\* StoreAToIoImm
ExecStoreAToIoImm(c, n0, n1) == Panics(c)

\* ReadAFromIoImm
ExecReadAFromIoImm(c, n0, n1) ==
    LET upper == NextByte(c)
        content == Fetch(c.mem, FromNeBytes(255, upper))
    IN  Res(W8(R(c), "A", content), Add(1))

\* StoreAToIoC
ExecStoreAToIoC(c, n0, n1) == Panics(c)

\* ReadAFromIoC
ExecReadAFromIoC(c, n0, n1) ==
    LET upper == R8(c, "C")
        content == Fetch(c.mem, FromNeBytes(255, upper))
    IN  Res(W8(R(c), "A", content), Add(1))

\* DisableInterrupts
ExecDisableInterrupts(c, n0, n1) == Panics(c)

\* AddImmAsSignedToSp
ExecAddImmAsSignedToSp(c, n0, n1) == Panics(c)

\* StoreAinMemHl
ExecStoreAinMemHl(c, n0, n1) == Res(WriteMem8(c, "HL", "A"), Add(1))

\* LoadAfromMemHl
ExecLoadAfromMemHl(c, n0, n1) ==
    LET content == Fetch(c.mem, R16(c, "HL"))
    IN  Res(W8(R(c), "A", content), Add(1))

\* LoadSignedImmPlusSpInHl
ExecLoadSignedImmPlusSpInHl(c, n0, n1) == Panics(c)

\* LoadHlinSp
ExecLoadHlinSp(c, n0, n1) == Panics(c)

\* EnableInterrupts
ExecEnableInterrupts(c, n0, n1) == Panics(c)

\* TwoByteInstruction
ExecTwoByteInstruction(c, n0, n1) == Panics(c)

\* ------------------------------------------------------------- decoder

\* Instruction::from(OpCode): the kind of each opcode byte, after the opcode
\* table of the specification (section 4.2); "DecoderGap" is a byte the table
\* gives to no kind.
Decode(op) ==
    LET n0 == op \div 16
        n1 == op % 16
    IN  CASE op = 0 -> "Nop"
          [] op = 16 -> "Stop"
          [] op = 118 -> "Halt"
          [] op = 8 -> "StoreSP"
          [] op = 7 -> "RotateLeftCircle"
          [] op = 15 -> "RotateRightCircle"
          [] op = 23 -> "RotateLeft"
          [] op = 31 -> "RotateRight"
          [] op = 34 -> "StoreHlIncr"
          [] op = 50 -> "StoreHlDecr"
          [] op = 42 -> "Load8MemHlIncr"
          [] op = 58 -> "Load8MemHlDecr"
          [] op = 39 -> "Daa"
          [] op = 47 -> "ComplementA"
          [] op = 52 -> "IncMemHl"
          [] op = 53 -> "DecMemHl"
          [] op = 54 -> "StoreXMemHl"
          [] op = 55 -> "SetCarryFlag"
          [] op = 63 -> "FlipCarryFlag"
          [] op \in {24, 32, 40, 48, 56} -> "JumpRelative"
          [] n0 \in 0..3 /\ n1 = 1 -> "Load16Mem"
          [] n0 \in 0..1 /\ n1 = 2 -> "Store8Mem"
          [] n0 \in 0..3 /\ n1 = 3 -> "Increment16"
          [] n0 \in 0..3 /\ n1 \in {4, 12} -> "Increment8"
          [] n0 \in 0..3 /\ n1 \in {5, 13} -> "Decrement8"
          [] n0 \in 0..3 /\ n1 \in {6, 14} -> "Load8Mem"
          [] n0 \in 0..3 /\ n1 = 9 -> "Add16toHL"
          [] n0 \in 0..1 /\ n1 = 10 -> "Load16Meminto8"
          [] n0 \in 0..3 /\ n1 = 11 -> "Decrement16"
          [] n0 = 7 /\ n1 \in 0..7 -> "Store8Mem"
          [] n0 \in 4..7 /\ n1 \in {6, 14} -> "Load16Meminto8"
          [] n0 \in 4..7 -> "Load8into8"
          [] op = 134 -> "AddMemToA"
          [] op = 142 -> "AddMemHlAndFlagToA"
          [] op = 150 -> "SubMemToA"
          [] op = 158 -> "SubMemHlAndFlagToA"
          [] op = 166 -> "AndMemHlA"
          [] op = 174 -> "XorMemHlA"
          [] op = 182 -> "OrMemHlA"
          [] op = 190 -> "CompareMemHlA"
          [] n0 = 8 /\ n1 < 8 -> "Add8toA"
          [] n0 = 8 -> "Add8AndFlagToA"
          [] n0 = 9 /\ n1 < 8 -> "Sub8fromA"
          [] n0 = 9 -> "Sub8AndFlagToA"
          [] n0 = 10 /\ n1 < 8 -> "And8A"
          [] n0 = 10 -> "Xor8A"
          [] n0 = 11 /\ n1 < 8 -> "Or8A"
          [] n0 = 11 -> "Compare8A"
          [] op \in {192, 200, 208, 216} -> "ReturnIfFlag"
          [] n0 \in 12..15 /\ n1 = 1 -> "Pop16"
          [] op \in {194, 202, 210, 218} -> "JumpIfFlag"
          [] op \in {195, 233} -> "Jump16"
          [] op \in {196, 204, 212, 220} -> "CallIfFlag"
          [] n0 \in 12..15 /\ n1 = 5 -> "Push16"
          [] op = 198 -> "Add8ImmToA"
          [] op = 214 -> "Sub8ImmToA"
          [] op = 230 -> "And8ImmToA"
          [] op = 246 -> "Or8ImmToA"
          [] op = 206 -> "AddImmAndFlagToA"
          [] op = 222 -> "SubImmAndFlagToA"
          [] op = 238 -> "XorImmToA"
          [] op = 254 -> "CompareImmToA"
          [] n0 \in 12..15 /\ n1 \in {7, 15} -> "CallN"
          [] op = 201 -> "Return"
          [] op = 217 -> "ReturnInterrupt"
          [] op = 205 -> "Call"
          [] op = 224 -> "StoreAToIoImm"
          [] op = 240 -> "ReadAFromIoImm"
          [] op = 226 -> "StoreAToIoC"
          [] op = 242 -> "ReadAFromIoC"
          [] op = 243 -> "DisableInterrupts"
          [] op = 232 -> "AddImmAsSignedToSp"
          [] op = 248 -> "LoadSignedImmPlusSpInHl"
          [] op = 249 -> "LoadHlinSp"
          [] op = 251 -> "EnableInterrupts"
          [] op = 203 -> "TwoByteInstruction"
          [] OTHER -> "DecoderGap"

\* AddressMove::apply(pc): the program counter the move gives, after section 3 of
\* the specification: Add(k) advances pc by k, To(a) is a.
Apply(move, pc) ==
    IF move.kind = "Add" THEN (pc + move.n) % 65536 ELSE move.n

\* The bus.fetch calls the arm of execute for instruction makes, next_byte
\* counting one and next_word two.
BusFetches(c, instruction, n0, n1) ==
    CASE instruction \in {"Load16Mem", "StoreSP", "Pop16", "JumpIfFlag", "CallIfFlag",
                          "Return", "Call", "ReadAFromIoImm"} -> 2
      [] instruction = "ReturnIfFlag" -> IF FlagCond(c, n0, n1, 0) THEN 2 ELSE 0
      [] instruction = "Jump16" -> IF n1 = 3 THEN 2 ELSE 0
      [] instruction \in {"Load8Mem", "JumpRelative", "Load8MemHlIncr", "Load8MemHlDecr",
                          "IncMemHl", "DecMemHl", "StoreXMemHl", "Load16Meminto8",
                          "AddMemToA", "AddMemHlAndFlagToA", "SubMemToA", "SubMemHlAndFlagToA",
                          "AndMemHlA", "XorMemHlA", "OrMemHlA", "CompareMemHlA",
                          "Add8ImmToA", "Sub8ImmToA", "And8ImmToA", "Or8ImmToA",
                          "AddImmAndFlagToA", "SubImmAndFlagToA", "XorImmToA", "CompareImmToA",
                          "ReadAFromIoC", "LoadAfromMemHl"} -> 1
      [] OTHER -> 0

\* Cpu::execute: the match on the instruction kind.
Execute(c, instruction, op) ==
    LET n0 == op \div 16
        n1 == op % 16
    IN  CASE instruction = "Nop" -> ExecNop(c, n0, n1)
          [] instruction = "Load16Mem" -> ExecLoad16Mem(c, n0, n1)
          [] instruction = "Store8Mem" -> ExecStore8Mem(c, n0, n1)
          [] instruction = "Decrement16" -> ExecDecrement16(c, n0, n1)
          [] instruction = "Increment16" -> ExecIncrement16(c, n0, n1)
          [] instruction = "Increment8" -> ExecIncrement8(c, n0, n1)
          [] instruction = "Decrement8" -> ExecDecrement8(c, n0, n1)
          [] instruction = "Load8Mem" -> ExecLoad8Mem(c, n0, n1)
          [] instruction = "RotateLeftCircle" -> ExecRotateLeftCircle(c, n0, n1)
          [] instruction = "StoreSP" -> ExecStoreSP(c, n0, n1)
          [] instruction = "Add16toHL" -> ExecAdd16toHL(c, n0, n1)
          [] instruction = "RotateRightCircle" -> ExecRotateRightCircle(c, n0, n1)
          [] instruction = "RotateLeft" -> ExecRotateLeft(c, n0, n1)
          [] instruction = "RotateRight" -> ExecRotateRight(c, n0, n1)
          [] instruction = "Stop" -> ExecStop(c, n0, n1)
          [] instruction = "JumpRelative" -> ExecJumpRelative(c, n0, n1)
          [] instruction = "StoreHlIncr" -> ExecStoreHlIncr(c, n0, n1)
          [] instruction = "StoreHlDecr" -> ExecStoreHlDecr(c, n0, n1)
          [] instruction = "Daa" -> ExecDaa(c, n0, n1)
          [] instruction = "Load8MemHlIncr" -> ExecLoad8MemHlIncr(c, n0, n1)
          [] instruction = "Load8MemHlDecr" -> ExecLoad8MemHlDecr(c, n0, n1)
          [] instruction = "ComplementA" -> ExecComplementA(c, n0, n1)
          [] instruction = "IncMemHl" -> ExecIncMemHl(c, n0, n1)
          [] instruction = "DecMemHl" -> ExecDecMemHl(c, n0, n1)
          [] instruction = "StoreXMemHl" -> ExecStoreXMemHl(c, n0, n1)
          [] instruction = "SetCarryFlag" -> ExecSetCarryFlag(c, n0, n1)
          [] instruction = "FlipCarryFlag" -> ExecFlipCarryFlag(c, n0, n1)
          [] instruction = "Load8into8" -> ExecLoad8into8(c, n0, n1)
          [] instruction = "Load16Meminto8" -> ExecLoad16Meminto8(c, n0, n1)
          [] instruction = "Halt" -> ExecHalt(c, n0, n1)
          [] instruction = "Add8toA" -> ExecAdd8toA(c, n0, n1)
          [] instruction = "AddMemToA" -> ExecAddMemToA(c, n0, n1)
          [] instruction = "Add8AndFlagToA" -> ExecAdd8AndFlagToA(c, n0, n1)
          [] instruction = "AddMemHlAndFlagToA" -> ExecAddMemHlAndFlagToA(c, n0, n1)
          [] instruction = "Sub8fromA" -> ExecSub8fromA(c, n0, n1)
          [] instruction = "SubMemToA" -> ExecSubMemToA(c, n0, n1)
          [] instruction = "Sub8AndFlagToA" -> ExecSub8AndFlagToA(c, n0, n1)
          [] instruction = "SubMemHlAndFlagToA" -> ExecSubMemHlAndFlagToA(c, n0, n1)
          [] instruction = "And8A" -> ExecAnd8A(c, n0, n1)
          [] instruction = "AndMemHlA" -> ExecAndMemHlA(c, n0, n1)
          [] instruction = "Xor8A" -> ExecXor8A(c, n0, n1)
          [] instruction = "XorMemHlA" -> ExecXorMemHlA(c, n0, n1)
          [] instruction = "Or8A" -> ExecOr8A(c, n0, n1)
          [] instruction = "OrMemHlA" -> ExecOrMemHlA(c, n0, n1)
          [] instruction = "Compare8A" -> ExecCompare8A(c, n0, n1)
          [] instruction = "CompareMemHlA" -> ExecCompareMemHlA(c, n0, n1)
          [] instruction = "ReturnIfFlag" -> ExecReturnIfFlag(c, n0, n1)
          [] instruction = "Pop16" -> ExecPop16(c, n0, n1)
          [] instruction = "JumpIfFlag" -> ExecJumpIfFlag(c, n0, n1)
          [] instruction = "Jump16" -> ExecJump16(c, n0, n1)
          [] instruction = "CallIfFlag" -> ExecCallIfFlag(c, n0, n1)
          [] instruction = "Push16" -> ExecPush16(c, n0, n1)
          [] instruction = "Add8ImmToA" -> ExecAdd8ImmToA(c, n0, n1)
          [] instruction = "Sub8ImmToA" -> ExecSub8ImmToA(c, n0, n1)
          [] instruction = "And8ImmToA" -> ExecAnd8ImmToA(c, n0, n1)
          [] instruction = "Or8ImmToA" -> ExecOr8ImmToA(c, n0, n1)
          [] instruction = "CallN" -> ExecCallN(c, n0, n1)
          [] instruction = "Return" -> ExecReturn(c, n0, n1)
          [] instruction = "ReturnInterrupt" -> ExecReturnInterrupt(c, n0, n1)
          [] instruction = "Call" -> ExecCall(c, n0, n1)
          [] instruction = "AddImmAndFlagToA" -> ExecAddImmAndFlagToA(c, n0, n1)
          [] instruction = "SubImmAndFlagToA" -> ExecSubImmAndFlagToA(c, n0, n1)
          [] instruction = "XorImmToA" -> ExecXorImmToA(c, n0, n1)
          [] instruction = "CompareImmToA" -> ExecCompareImmToA(c, n0, n1)
          [] instruction = "StoreAToIoImm" -> ExecStoreAToIoImm(c, n0, n1)
          [] instruction = "ReadAFromIoImm" -> ExecReadAFromIoImm(c, n0, n1)
          [] instruction = "StoreAToIoC" -> ExecStoreAToIoC(c, n0, n1)
          [] instruction = "ReadAFromIoC" -> ExecReadAFromIoC(c, n0, n1)
          [] instruction = "DisableInterrupts" -> ExecDisableInterrupts(c, n0, n1)
          [] instruction = "AddImmAsSignedToSp" -> ExecAddImmAsSignedToSp(c, n0, n1)
          [] instruction = "StoreAinMemHl" -> ExecStoreAinMemHl(c, n0, n1)
          [] instruction = "LoadAfromMemHl" -> ExecLoadAfromMemHl(c, n0, n1)
          [] instruction = "LoadSignedImmPlusSpInHl" -> ExecLoadSignedImmPlusSpInHl(c, n0, n1)
          [] instruction = "LoadHlinSp" -> ExecLoadHlinSp(c, n0, n1)
          [] instruction = "EnableInterrupts" -> ExecEnableInterrupts(c, n0, n1)
          [] instruction = "TwoByteInstruction" -> ExecTwoByteInstruction(c, n0, n1)
          [] OTHER -> Panics(c)

\* Cpu::step without the reset of the counter it counts in.
StepCpuFromCounter(c) ==
    LET c0 == [c EXCEPT !.accesses = 0]
        pc == R16(c0, "PC")
        op == Fetch(c0.mem, pc)
        fetches == 1 + BusFetches(c0, Decode(op), op \div 16, op % 16)
    IN  Let(Execute(Uncharged(R(c0), fetches), Decode(op), op), LAMBDA done :
            [cpu |-> W16(done.cpu, "PC", Apply(done.move, pc)), op |-> op, move |-> done.move,
             executed |-> done.cpu])

\* The body of Cpu::step in Run mode, from `self.cycles = 0` on: the cpu when
\* step returns (or panics), with the opcode it fetched.
StepCpu(c) ==
    LET c0 == [c EXCEPT !.cycles = 0, !.accesses = 0]
        pc == R16(c0, "PC")
        op == Fetch(c0.mem, pc)
        fetches == 1 + BusFetches(c0, Decode(op), op \div 16, op % 16)
    IN  Let(Execute(Uncharged(R(c0), fetches), Decode(op), op), LAMBDA done :
            [cpu |-> W16(done.cpu, "PC", Apply(done.move, pc)), op |-> op, move |-> done.move,
             executed |-> done.cpu])

\* ------------------------------------------------------------- register-file operations

\* The values the register-file operations are applied with.
V8Vals == {0, 90, 255}
V16Vals == {4660, 65535}
FlagMasks == {SubtractMask, ZeroMask, HalfCarryMask, CarryMask}

\* What `trace` records of an operation: its kind, its arguments (for a step val
\* is the opcode fetched and ret the cycle count returned) and the state it was
\* applied to.
Applied(kind, reg, val, flag, ret) ==
    [kind |-> kind, reg |-> reg, val |-> val, flag |-> flag, ret |-> ret,
     registers |-> registers, mem |-> mem, cycles |-> cycles, mode |-> mode]

\* The last operation applied; before any, the construction of the Cpu.
last == IF trace = << >> THEN Applied("new", "", 0, FALSE, 0) ELSE trace[Len(trace)]

\* Cpu::new with the default Bus: registers and RAM zeroed, mode Run.
InitReg ==
    /\ registers = [i \in 0..5 |-> 0]
    /\ mem = << >>
    /\ cycles = 0
    /\ mode = "Run"
    /\ panicked = FALSE
    /\ little_endian \in BOOLEAN
    /\ overflow_checks \in BOOLEAN
    /\ trace = << >>
    /\ run_at = "new"
    /\ draw = NoDraw
    /\ chan = NoSink
    /\ game_window = GameWindowDefault

\* cpu.w(reg, v) for an 8-bit register
CpuW8(reg, v) ==
    /\ Len(trace) < MaxRegOps
    /\ LET c == W8(ThisCpu, reg, v)
       IN  /\ registers' = c.registers
           /\ cycles' = c.cycles
    /\ trace' = Append(trace, Applied("w8", reg, v, FALSE, 0))
    /\ UNCHANGED <<mem, mode, panicked, little_endian, overflow_checks, run_at, draw, chan, game_window>>

\* cpu.w(reg, v) for a 16-bit register
CpuW16(reg, v) ==
    /\ Len(trace) < MaxRegOps
    /\ LET c == W16(ThisCpu, reg, v)
       IN  /\ registers' = c.registers
           /\ cycles' = c.cycles
    /\ trace' = Append(trace, Applied("w16", reg, v, FALSE, 0))
    /\ UNCHANGED <<mem, mode, panicked, little_endian, overflow_checks, run_at, draw, chan, game_window>>

\* set_subtract(v) / set_zero(v) / set_half_carry(v) / set_carry(v), by mask
CpuSetFlag(mask, v) ==
    /\ Len(trace) < MaxRegOps
    /\ LET c == SetFlag(ThisCpu, mask, v)
       IN  /\ registers' = c.registers
           /\ cycles' = c.cycles
    /\ trace' = Append(trace, Applied("set_flag", "F", mask, v, 0))
    /\ UNCHANGED <<mem, mode, panicked, little_endian, overflow_checks, run_at, draw, chan, game_window>>

NextReg ==
    \/ \E reg \in V8, v \in V8Vals : CpuW8(reg, v)
    \/ \E reg \in V16, v \in V16Vals : CpuW16(reg, v)
    \/ \E mask \in FlagMasks, v \in BOOLEAN : CpuSetFlag(mask, v)

SpecReg == InitReg /\ [][NextReg]_vars

\* ------------------------------------------------------------- step

\* The inputs a behaviour of Spec starts from.
AVals == {15, 16, 66, 255}
BVals == {1, 66, 241}
FVals == {0, 16, 64, 128}
Opcodes == 0..255
OperandVals == {<<52, 18>>, <<5, 0>>, <<251, 255>>, <<205, 205>>}
PCVals == {256}
SPVals == {65534}
StackVals == {<<3, 1>>}

\* The RAM image with prog at pc and stack at sp, a Return at the address ret_at
\* and zero elsewhere.
RECURSIVE Load(_, _, _)
Load(m, addr, bytes) ==
    IF bytes = << >> THEN m
    ELSE Load(WriteMem(m, addr % 65536, Head(bytes)), addr + 1, Tail(bytes))

Image(pc, prog, sp, stack, ret_at) ==
    Load(Load(WriteMem(<< >>, ret_at, 201), sp, stack), pc, prog)

\* A Cpu in Run mode whose registers hold a in A, f in F, b in B and b plus
\* multiples of 0x11 in C, D, E, H, L, and whose RAM holds the opcode with its two
\* operand bytes at PC, two bytes at SP and a Return at the operand word.
Init ==
    /\ little_endian \in BOOLEAN
    /\ overflow_checks \in BOOLEAN
    /\ \E a \in AVals, b \in BVals, f \in FVals, pc \in PCVals, sp \in SPVals :
          registers = [i \in 0..5 |->
              CASE i = 0 -> FromNeBytes(b, (b + 17) % 256)
                [] i = 1 -> FromNeBytes((b + 34) % 256, (b + 51) % 256)
                [] i = 2 -> FromNeBytes((b + 68) % 256, (b + 85) % 256)
                [] i = 3 -> FromNeBytes(a, f)
                [] i = 4 -> pc
                [] i = 5 -> sp]
    /\ \E op \in Opcodes, d \in OperandVals, stack \in StackVals :
          mem = Image(registers[4], <<op, d[1], d[2]>>, registers[5], stack, d[1] + 256 * d[2])
    /\ cycles = 0
    /\ mode = "Run"
    /\ panicked = FALSE
    /\ trace = << >>
    /\ run_at = "new"
    /\ draw = NoDraw
    /\ chan = NoSink
    /\ game_window = GameWindowDefault

\* What `trace` records of a step that ran an instruction: the opcode in val, the
\* cycle count returned in ret, and the AddressMove, the cpu that execute left
\* and the accesses made.
StepRecord(s) ==
    [move |-> s.move, pc_executed |-> s.executed.registers[4], accesses |-> s.cpu.accesses]
        @@ Applied("step", "", s.op, TRUE, s.cpu.cycles)

\* Cpu::step without its test of the mode.
StepInAnyMode ==
    /\ ~panicked
    /\ Len(trace) < MaxSteps
    /\ \E s \in {StepCpu(ThisCpu)} :
           /\ registers' = s.cpu.registers
           /\ mem' = s.cpu.mem
           /\ cycles' = s.cpu.cycles
           /\ panicked' = s.cpu.panicked
           /\ trace' = Append(trace, StepRecord(s))
    /\ UNCHANGED <<mode, little_endian, overflow_checks, run_at, draw, chan, game_window>>

\* Cpu::step, as the run loop's thread calls it.
Step ==
    /\ ~panicked
    /\ Len(trace) < MaxSteps
    /\ IF mode # "Run"
       THEN /\ trace' = Append(trace, Applied("step", "", 0, FALSE, 0))
            /\ UNCHANGED <<registers, mem, cycles, panicked>>
       ELSE \E s \in {StepCpu(ThisCpu)} :
                /\ registers' = s.cpu.registers
                /\ mem' = s.cpu.mem
                /\ cycles' = s.cpu.cycles
                /\ panicked' = s.cpu.panicked
                /\ trace' = Append(trace, StepRecord(s))
    /\ UNCHANGED <<mode, little_endian, overflow_checks, run_at, draw, chan, game_window>>

Next == Step

Spec == Init /\ [][Next]_vars

\* ------------------------------------------------------------- step from Cpu::new

\* Cpu::new: every register zero, Run mode, with the opcode, its two operand
\* bytes and the stack bytes behind them in RAM from address 0 on.
InitBoot ==
    /\ little_endian \in BOOLEAN
    /\ overflow_checks \in BOOLEAN
    /\ registers = [i \in 0..5 |-> 0]
    /\ \E op \in Opcodes, d \in OperandVals, stack \in StackVals :
          mem = Load(<< >>, 0, <<op, d[1], d[2]>> \o stack)
    /\ cycles = 0
    /\ mode = "Run"
    /\ panicked = FALSE
    /\ trace = << >>
    /\ run_at = "new"
    /\ draw = NoDraw
    /\ chan = NoSink
    /\ game_window = GameWindowDefault

SpecBoot == InitBoot /\ [][Next]_vars

\* ------------------------------------------------------------- step, two instructions

\* The two-instruction programs: Push rr; Pop rr and Inc8 r; Dec8 r.
PairProgs ==
    { <<197, 193>>, <<213, 209>>, <<229, 225>>, <<245, 241>>,
      <<4, 5>>, <<12, 13>>, <<20, 21>>, <<28, 29>>, <<36, 37>>, <<44, 45>>, <<60, 61>> }
PairAVals == {0, 66, 255}
PairBVals == {0, 1, 255}
PairFVals == {0, 16, 49, 192}

\* A Cpu in Run mode with a two-instruction program at PC: registers as in Init,
\* F also 0x31, the value opcode 0x31 leaves in it.
InitPair ==
    /\ little_endian \in BOOLEAN
    /\ overflow_checks \in BOOLEAN
    /\ \E a \in PairAVals, b \in PairBVals, f \in PairFVals, pc \in PCVals, sp \in SPVals :
          registers = [i \in 0..5 |->
              CASE i = 0 -> FromNeBytes(b, (b + 17) % 256)
                [] i = 1 -> FromNeBytes((b + 34) % 256, (b + 51) % 256)
                [] i = 2 -> FromNeBytes((b + 68) % 256, (b + 85) % 256)
                [] i = 3 -> FromNeBytes(a, f)
                [] i = 4 -> pc
                [] i = 5 -> sp]
    /\ \E prog \in PairProgs, stack \in StackVals :
          mem = Load(Load(<< >>, registers[5], stack), registers[4], prog)
    /\ cycles = 0
    /\ mode = "Run"
    /\ panicked = FALSE
    /\ trace = << >>
    /\ run_at = "new"
    /\ draw = NoDraw
    /\ chan = NoSink
    /\ game_window = GameWindowDefault

SpecPair == InitPair /\ [][Next]_vars

\* ------------------------------------------------------------- run

CLOCK_SPEED == 4194304

CpuModes == {"Run", "Halt", "DebugGpu", "Shutdown"}

\* The programs RAM holds from address 0 on when the Cpu is built; the empty one
\* is the default Bus, whose RAM is all zero (Nop).
RunImages == {<< >>, <<4, 195>>, <<1, 52, 18>>}

\* Cpu::new, before its owner calls run.
InitRun ==
    /\ little_endian \in BOOLEAN
    /\ overflow_checks \in BOOLEAN
    /\ registers = [i \in 0..5 |-> 0]
    /\ \E prog \in RunImages : mem = Load(<< >>, 0, prog)
    /\ cycles = 0
    /\ mode = "Run"
    /\ panicked = FALSE
    /\ trace = << >>
    /\ run_at = "new"
    /\ draw = NoDraw
    /\ chan \in {NoSink, LiveSink}
    /\ game_window = GameWindowDefault

\* Cpu::set_mode. It takes &mut self and run takes self by value, so it can be
\* called only until run is.
SetMode(m) ==
    /\ run_at = "new"
    /\ draw = NoDraw
    /\ chan \in {NoSink, LiveSink}
    /\ ~panicked
    /\ mode' = m
    /\ UNCHANGED <<registers, mem, cycles, panicked, little_endian, overflow_checks, trace, run_at, draw, chan, game_window>>

\* Cpu::step called by the owner of the Cpu.
ApiStep == run_at = "new" /\ Step

\* The owner calls run, which moves the Cpu into the call (gba.rs spawns a thread for it).
RunCall ==
    /\ run_at = "new"
    /\ ~panicked
    /\ run_at' = "outer"
    /\ UNCHANGED <<registers, mem, cycles, mode, panicked, little_endian, overflow_checks, trace, draw, chan, game_window>>

\* The head of the outer loop without its test of the mode.
RunOuterWhileTrue ==
    /\ run_at = "outer"
    /\ cycles' = 0
    /\ run_at' = "inner"
    /\ UNCHANGED <<registers, mem, mode, panicked, little_endian, overflow_checks, trace, draw, chan, game_window>>

\* The head of the outer loop: while self.mode != Shutdown { self.cycles = 0; ...
\* and the return of run when the mode is Shutdown.
RunOuter ==
    /\ run_at = "outer"
    /\ IF mode # "Shutdown"
       THEN cycles' = 0 /\ run_at' = "inner"
       ELSE cycles' = cycles /\ run_at' = "returned"
    /\ UNCHANGED <<registers, mem, mode, panicked, little_endian, overflow_checks, trace, draw, chan, game_window>>

\* The head of the inner loop: while self.cycles < CLOCK_SPEED; past the budget
\* the window ends (elapsed time printed, sleep) and the outer loop goes on.
RunInner ==
    /\ run_at = "inner"
    /\ run_at' = IF cycles < CLOCK_SPEED THEN "body" ELSE "outer"
    /\ UNCHANGED <<registers, mem, cycles, mode, panicked, little_endian, overflow_checks, trace, draw, chan, game_window>>

\* The draw loop of the body: for _i in 0..10, four signals a round.
DrawRounds == 10

\* The values rand::random::<usize>() is taken to return.
RandVals == {0, 199}

\* The k-th signal of a round, DrawPixel(x % 100 [+ 1], y % 100 [+ 1], cycles % 4).
DrawPixel(k, x, y) ==
    [x |-> (x % 100) + (IF k \in {2, 3} THEN 1 ELSE 0),
     y |-> (y % 100) + (IF k \in {1, 3} THEN 1 ELSE 0),
     color |-> cycles % 4]

\* The head of the body: self.cycles += 1, before the draw loop.
RunBody ==
    /\ run_at = "body"
    /\ ~panicked
    /\ Len(trace) < MaxSteps
    /\ cycles' = cycles + 1
    /\ run_at' = "draw"
    /\ draw' = NoDraw
    /\ UNCHANGED <<registers, mem, mode, panicked, little_endian, overflow_checks, trace, chan, game_window>>

\* One self.bus.send_gpu_signal(signal) of the draw loop; the first of a round
\* comes after the round's y and x are drawn at random, the last of the last
\* round leaves the loop.
RunSend ==
    /\ run_at = "draw"
    /\ (chan.sender /\ chan.alive) => Len(chan.sent) < MaxSignals
    /\ \E x \in IF draw.k = 0 THEN RandVals ELSE {draw.x},
          y \in IF draw.k = 0 THEN RandVals ELSE {draw.y} :
          /\ chan' = SendGpuSignal(chan, DrawPixel(draw.k, x, y))
          /\ draw' = IF draw.k < 3 THEN [i |-> draw.i, k |-> draw.k + 1, x |-> x, y |-> y]
                     ELSE IF draw.i + 1 < DrawRounds THEN [NoDraw EXCEPT !.i = draw.i + 1]
                     ELSE NoDraw
    /\ run_at' = IF draw.k = 3 /\ draw.i + 1 = DrawRounds THEN "step" ELSE "draw"
    /\ UNCHANGED <<registers, mem, cycles, mode, panicked, little_endian, overflow_checks, trace,
                   game_window>>

\* What `trace` records of a step of the run loop: the state the step was called
\* in (the window's counter already incremented) and the count it returned.
RunStepRecord(ran, op, ret) == Applied("run_step", "", op, ran, ret)

\* The end of the body: self.cycles += self.step(), where step runs first and the
\* sum is taken from the counter it leaves.
RunStep ==
    /\ run_at = "step"
    /\ IF mode # "Run"
       THEN /\ cycles' = cycles + 0
            /\ trace' = Append(trace, RunStepRecord(FALSE, 0, 0))
            /\ run_at' = "inner"
            /\ UNCHANGED <<registers, mem, panicked>>
       ELSE \E s \in {StepCpu(ThisCpu)} :
                /\ registers' = s.cpu.registers
                /\ mem' = s.cpu.mem
                /\ cycles' = s.cpu.cycles + s.cpu.cycles
                /\ panicked' = s.cpu.panicked
                /\ trace' = Append(trace, RunStepRecord(TRUE, s.op, s.cpu.cycles))
                /\ run_at' = IF s.cpu.panicked THEN "step" ELSE "inner"
    /\ UNCHANGED <<mode, little_endian, overflow_checks, draw, chan, game_window>>

\* The run loop, as the thread that owns the Cpu executes it.
RunLoop == RunOuter \/ RunInner \/ RunBody \/ RunSend \/ RunStep

\* One iteration of `for signal in self.signal_receiver.try_iter()` in the Gpu's
\* update: the oldest queued signal is received and processed. A panic of
\* draw_pixel unwinds the thread that runs the window, and the Receiver is
\* dropped with the Gpu.
GpuUpdate ==
    /\ chan.alive
    /\ chan.queue # << >>
    /\ game_window' = ProcessDrawSignal(game_window, Head(chan.queue))
    /\ chan' = IF game_window'.panicked THEN DeadSink
               ELSE [chan EXCEPT !.observed = Append(@, Head(chan.queue)), !.queue = Tail(@)]
    /\ UNCHANGED <<registers, mem, cycles, mode, panicked, little_endian, overflow_checks, trace,
                   run_at, draw>>

\* The Gpu goes away (its window is closed): the Receiver is dropped with what
\* was still queued, and with it what the Gpu had observed.
GpuClose ==
    /\ chan.alive
    /\ chan' = DeadSink
    /\ game_window' = GameWindowDefault
    /\ UNCHANGED <<registers, mem, cycles, mode, panicked, little_endian, overflow_checks, trace,
                   run_at, draw>>

NextRun ==
    \/ \E m \in CpuModes : SetMode(m)
    \/ ApiStep
    \/ RunCall
    \/ RunLoop
    \/ GpuUpdate
    \/ GpuClose

SpecRun == InitRun /\ [][NextRun]_vars

\* The thread that runs the loop keeps being scheduled.
SpecRunFair == SpecRun /\ WF_vars(RunLoop)

\* ------------------------------------------------------------- draw

\* Screen coordinates, x below GAME_SCREEN_WIDTH and y below GAME_SCREEN_HEIGHT,
\* and the four colors of the palette.
PixelXs == {0, 1, 143, 144, 159}
PixelYs == {0, 1, 143}
PixelColors == 0..3

\* A Gba as Gba::default builds it: a Cpu whose Bus holds the Sender, and a Gpu
\* with the Receiver and a default Window.
InitDraw ==
    /\ little_endian \in BOOLEAN
    /\ overflow_checks \in BOOLEAN
    /\ registers = [i \in 0..5 |-> 0]
    /\ mem = << >>
    /\ cycles = 0
    /\ mode = "Run"
    /\ panicked = FALSE
    /\ trace = << >>
    /\ run_at = "new"
    /\ draw = NoDraw
    /\ chan = LiveSink
    /\ game_window = GameWindowDefault

\* Bus::send_gpu_signal called with a DrawPixel of screen coordinates.
BusSend ==
    /\ Len(chan.sent) < MaxPixels
    /\ ~game_window.panicked
    /\ \E x \in PixelXs, y \in PixelYs, color \in PixelColors :
          chan' = SendGpuSignal(chan, [x |-> x, y |-> y, color |-> color])
    /\ UNCHANGED <<registers, mem, cycles, mode, panicked, little_endian, overflow_checks, trace,
                   run_at, draw, game_window>>

NextDraw == BusSend \/ GpuUpdate \/ GpuClose

SpecDraw == InitDraw /\ [][NextDraw]_vars

\* ------------------------------------------------------------- claims: register file

\* The other half of an 8-bit register's pair.
Sibling(r) ==
    CASE r = "A" -> "F" [] r = "F" -> "A"
      [] r = "B" -> "C" [] r = "C" -> "B"
      [] r = "D" -> "E" [] r = "E" -> "D"
      [] r = "H" -> "L" [] r = "L" -> "H"

\* C1: an 8-bit write of v to r changes only the addressed half of r's own cell:
\* the other half of that cell and the five other cells keep their values.
C1_Write8ChangesOnlyOwnHalf ==
    last.kind = "w8" =>
        /\ V8Read(registers, Sibling(last.reg)) = V8Read(last.registers, Sibling(last.reg))
        /\ \A i \in 0..5 : i # V8Cell(last.reg) => registers[i] = last.registers[i]

\* The pairs with their high and low 8-bit halves.
Pairs ==
    { [rr |-> "BC", hi |-> "B", lo |-> "C"], [rr |-> "DE", hi |-> "D", lo |-> "E"],
      [rr |-> "HL", hi |-> "H", lo |-> "L"], [rr |-> "AF", hi |-> "A", lo |-> "F"] }

\* C2: in every state reached by 8-bit and 16-bit register writes each pair reads
\* 256*high + low of its 8-bit halves, and an 8-bit register reads the value just
\* written to it.
C2_PairIsHighLow ==
    /\ \A p \in Pairs :
          V16Read(registers, p.rr) = 256 * V8Read(registers, p.hi) + V8Read(registers, p.lo)
    /\ last.kind = "w8" => V8Read(registers, last.reg) = last.val

\* C3: after a flag setter is called with v the matching getter returns v, calling
\* it again with the same v leaves the same F, and the other three flags keep
\* their values.
C3_SetterForcesFlag ==
    last.kind = "set_flag" =>
        /\ FlagOf(ThisCpu, last.val) = last.flag
        /\ V8Read(SetFlagRegs(registers, last.val, last.flag), "F") = V8Read(registers, "F")
        /\ \A m \in FlagMasks \ {last.val} :
              FlagOf(ThisCpu, m) = (BitAnd(V8Read(last.registers, "F"), m) # 0)

\* ------------------------------------------------------------- claims: step

\* The step that led to the current state ran an instruction of opcode set ops.
Stepped(ops) == last.kind = "step" /\ last.flag /\ last.val \in ops

\* The register an opcode's low three bits name.
OperandReg(op) ==
    CASE op % 8 = 0 -> "B" [] op % 8 = 1 -> "C" [] op % 8 = 2 -> "D" [] op % 8 = 3 -> "E"
      [] op % 8 = 4 -> "H" [] op % 8 = 5 -> "L" [] op % 8 = 7 -> "A"

\* The cpu the step started from, and what it held.
Before == CpuOf(last.registers, last.mem, 0)
BeforePC == V16Read(last.registers, "PC")
BeforeA == V8Read(last.registers, "A")

\* The four flags as the getters read them.
FlagsAre(z, n, h, c) ==
    /\ FlagOf(ThisCpu, ZeroMask) = z
    /\ FlagOf(ThisCpu, SubtractMask) = n
    /\ FlagOf(ThisCpu, HalfCarryMask) = h
    /\ FlagOf(ThisCpu, CarryMask) = c

\* C4: in every state reached by steps from the zero-initialised register file
\* bits 0..3 of F are zero, after Pop AF (0xF1) included.
C4_FLowNibbleZero == V8Read(registers, "F") % 16 = 0

\* C5: one step of Add A,r (0x80-0x85) with A = a and r = b leaves
\* A = (a+b) mod 256, C = (a+b >= 256), H = ((a & 0xF) + (b & 0xF) > 0xF),
\* Z = (result = 0), N = 0 and PC advanced by 1.
C5_AddAr ==
    Stepped(128..133) =>
        LET a == BeforeA
            b == V8Read(last.registers, OperandReg(last.val))
        IN  /\ ~panicked
            /\ V8Read(registers, "A") = (a + b) % 256
            /\ FlagsAre((a + b) % 256 = 0, FALSE, (a % 16) + (b % 16) > 15, a + b >= 256)
            /\ V16Read(registers, "PC") = (BeforePC + 1) % 65536

\* C6: one step of Sub r (0x90-0x95) or Sub imm8 (0xD6) with A = a and operand b
\* stores (a-b) mod 256 in A and sets Z = (result = 0), N = 1,
\* H = ((b & 0xF) > (a & 0xF)), C = (a < b).
C6_SubStoresDifference ==
    Stepped((144..149) \cup {214}) =>
        LET a == BeforeA
            b == IF last.val = 214 THEN Fetch(last.mem, (BeforePC + 1) % 65536)
                 ELSE V8Read(last.registers, OperandReg(last.val))
        IN  /\ ~panicked
            /\ V8Read(registers, "A") = (a - b) % 256
            /\ FlagsAre((a - b) % 256 = 0, TRUE, (b % 16) > (a % 16), a < b)

\* C7: one step of Cmp r (0xB8-0xBD, 0xBF) with A = a and r = b leaves A and
\* every other 8-bit data register unchanged and sets Z = (a = b), N = 1,
\* H = ((b & 0xF) > (a & 0xF)), C = (a < b).
C7_CmpKeepsRegisters ==
    Stepped((184..189) \cup {191}) =>
        LET a == BeforeA
            b == V8Read(last.registers, OperandReg(last.val))
        IN  /\ ~panicked
            /\ \A r \in V8 \ {"F"} : V8Read(registers, r) = V8Read(last.registers, r)
            /\ FlagsAre(a = b, TRUE, (b % 16) > (a % 16), a < b)

\* The pair the high nibble of a 16-bit load opcode selects.
Load16Pair(op) ==
    CASE op = 1 -> "BC" [] op = 17 -> "DE" [] op = 33 -> "HL" [] op = 49 -> "SP"

\* C8: one step of opcode 0x01, 0x11, 0x21 or 0x31 at p loads
\* mem[p+1] + 256*mem[p+2] into BC, DE, HL or SP by the high nibble, leaves
\* PC = p+3 and leaves F and the other pairs unchanged.
C8_Load16Immediate ==
    Stepped({1, 17, 33, 49}) =>
        LET p == BeforePC
            imm == Fetch(last.mem, (p + 1) % 65536) + 256 * Fetch(last.mem, (p + 2) % 65536)
            rr == Load16Pair(last.val)
        IN  /\ ~panicked
            /\ V16Read(registers, rr) = imm
            /\ V16Read(registers, "PC") = (p + 3) % 65536
            /\ V8Read(registers, "F") = V8Read(last.registers, "F")
            /\ \A other \in {"BC", "DE", "HL", "SP"} \ {rr} :
                  V16Read(registers, other) = V16Read(last.registers, other)

\* Whether the relative jump op is taken from the flags the step started with.
JumpTaken(op) ==
    CASE op = 24 -> TRUE
      [] op = 32 -> ~FlagOf(Before, ZeroMask)
      [] op = 40 -> FlagOf(Before, ZeroMask)
      [] op = 48 -> ~FlagOf(Before, CarryMask)
      [] op = 56 -> FlagOf(Before, CarryMask)

\* The displacement byte read as a two's complement number.
SignExtend(d) == IF d >= 128 THEN d - 256 ELSE d

\* C9: one step of a relative jump (0x18, 0x20 NZ, 0x28 Z, 0x30 NC, 0x38 C) at p
\* with displacement d = mem[p+1] leaves PC = (p + 2 + sign_extend(d)) mod 2^16
\* if taken and PC = p + 2 if not, and changes no register other than PC.
C9_RelativeJump ==
    Stepped({24, 32, 40, 48, 56}) =>
        LET p == BeforePC
            d == Fetch(last.mem, (p + 1) % 65536)
        IN  /\ ~panicked
            /\ V16Read(registers, "PC") =
                  IF JumpTaken(last.val) THEN (p + 2 + SignExtend(d)) % 65536
                  ELSE (p + 2) % 65536
            /\ \A i \in {0, 1, 2, 3, 5} : registers[i] = last.registers[i]

\* C10: a step executing Call t (0xCD) at p with stack pointer s followed by a
\* step executing Return (0xC9) at t leaves PC = p + 3 and SP = s.
C10_CallThenReturn ==
    ( /\ Len(trace) = 2
      /\ trace[1].flag /\ trace[1].val = 205
      /\ trace[2].flag /\ trace[2].val = 201
      /\ V16Read(trace[2].registers, "PC") =
            Fetch(trace[1].mem, (V16Read(trace[1].registers, "PC") + 1) % 65536)
            + 256 * Fetch(trace[1].mem, (V16Read(trace[1].registers, "PC") + 2) % 65536) )
    => /\ ~panicked
       /\ V16Read(registers, "PC") = (V16Read(trace[1].registers, "PC") + 3) % 65536
       /\ V16Read(registers, "SP") = V16Read(trace[1].registers, "SP")

\* The state the first of two steps started from, and the pair a Push or Pop
\* opcode names.
First == trace[1]
StackOpPair(op) ==
    CASE op \in {197, 193} -> "BC" [] op \in {213, 209} -> "DE"
      [] op \in {229, 225} -> "HL" [] op \in {245, 241} -> "AF"

\* Two steps ran: opcode op1 and then op2 at the address after it.
SteppedPair(op1, op2) ==
    /\ Len(trace) = 2
    /\ First.flag /\ First.val = op1
    /\ last.flag /\ last.val = op2
    /\ V16Read(last.registers, "PC") = (V16Read(First.registers, "PC") + 1) % 65536

\* C11: Push rr followed by Pop rr leaves SP and rr at their original values,
\* except that for AF the low nibble of F is zero after the Pop; the Push stores
\* low(rr) at SP-2 and high(rr) at SP-1 and changes no other memory byte.
C11_PushThenPop ==
    \A push \in {197, 213, 229, 245} :
        SteppedPair(push, push - 4) =>
            LET rr == StackOpPair(push)
                sp == V16Read(First.registers, "SP")
                old == V16Read(First.registers, rr)
                lo == (sp - 2) % 65536
                hi == (sp - 1) % 65536
            IN  /\ ~panicked
                /\ V16Read(registers, "SP") = sp
                /\ rr # "AF" => V16Read(registers, rr) = old
                /\ rr = "AF" =>
                      /\ V8Read(registers, "A") = V8Read(First.registers, "A")
                      /\ V8Read(registers, "F") =
                            V8Read(First.registers, "F") - (V8Read(First.registers, "F") % 16)
                /\ Fetch(last.mem, lo) = old % 256
                /\ Fetch(last.mem, hi) = old \div 256
                /\ \A addr \in (DOMAIN last.mem \cup DOMAIN First.mem) \ {lo, hi} :
                      Fetch(last.mem, addr) = Fetch(First.mem, addr)

\* The register an Inc8 or Dec8 opcode names, by bits 3..5.
IncDecReg(op) ==
    CASE op \div 8 = 0 -> "B" [] op \div 8 = 1 -> "C" [] op \div 8 = 2 -> "D" [] op \div 8 = 3 -> "E"
      [] op \div 8 = 4 -> "H" [] op \div 8 = 5 -> "L" [] op \div 8 = 7 -> "A"

\* C12: Inc8 r followed by Dec8 r leaves r at its initial value x, leaves
\* Z = (x = 0) and leaves C at its value before the pair.
C12_IncThenDec ==
    \A inc \in {4, 12, 20, 28, 36, 44, 60} :
        SteppedPair(inc, inc + 1) =>
            LET r == IncDecReg(inc)
                x == V8Read(First.registers, r)
                before == CpuOf(First.registers, First.mem, 0)
            IN  /\ ~panicked
                /\ V8Read(registers, r) = x
                /\ FlagOf(ThisCpu, ZeroMask) = (x = 0)
                /\ FlagOf(ThisCpu, CarryMask) = FlagOf(before, CarryMask)

ConditionalOps == {32, 40, 48, 56, 192, 200, 208, 216, 194, 202, 210, 218, 196, 204, 212, 220}
ConditionHolds(op) ==
    CASE (op \div 8) % 4 = 0 -> ~FlagOf(Before, ZeroMask)
      [] (op \div 8) % 4 = 1 -> FlagOf(Before, ZeroMask)
      [] (op \div 8) % 4 = 2 -> ~FlagOf(Before, CarryMask)
      [] (op \div 8) % 4 = 3 -> FlagOf(Before, CarryMask)

\* The opcodes of the instructions C14 names, and their lengths in bytes by the
\* opcode table.
OneByteOps == {0} \cup ((64..127) \ {118}) \cup (128..191) \cup {192, 200, 208, 216}
TwoByteOps ==
    {6, 14, 22, 30, 38, 46, 62, 54, 198, 214, 230, 246, 206, 222, 238, 254, 240, 32, 40, 48, 56}
ThreeByteOps == {1, 17, 33, 49, 8, 194, 202, 210, 218, 196, 204, 212, 220}
InstrSize(op) == IF op \in OneByteOps THEN 1 ELSE IF op \in TwoByteOps THEN 2 ELSE 3

\* C14: a step of an instruction that does not transfer control, a conditional
\* jump, call or return whose condition is false included, leaves
\* PC = (PC_before + size) mod 2^16, size being the instruction's length in the
\* opcode table.
C14_PCAdvancesBySize ==
    ( /\ Stepped(OneByteOps \cup TwoByteOps \cup ThreeByteOps)
      /\ ~panicked
      /\ last.val \in ConditionalOps => ~ConditionHolds(last.val) )
    => V16Read(registers, "PC") = (BeforePC + InstrSize(last.val)) % 65536

\* C15: the cycle count a step in Run mode returns equals the number of register
\* reads, register writes, memory reads and memory writes made during the step,
\* the flag helpers' accesses of F and the bus fetches and stores included.
C15_CyclesCountAccesses ==
    (Stepped(Opcodes) /\ ~panicked) => last.ret = last.accesses

\* ------------------------------------------------------------- claims: run loop

\* The last operation was a step of the run loop that executed an instruction.
RanInWindow == last.kind = "run_step" /\ last.flag /\ ~panicked

\* C16: in Run mode, with every step completing, the cycle count each step returns
\* is accumulated in the window's counter: after a step the counter is the counter
\* the step was called with plus the returned count, so that it never decreases
\* between two steps of a window and reaches the budget after finitely many steps.
C16_WindowAccumulates ==
    RanInWindow =>
        /\ cycles = last.cycles + last.ret
        /\ cycles >= last.cycles
        /\ cycles <= CLOCK_SPEED + last.ret

C18_StepOutsideRunIsNoOp ==
    [][(Len(trace') > Len(trace) /\ mode # "Run") =>
          /\ last'.kind \in {"step", "run_step"}
          /\ last'.ret = 0
          /\ ~last'.flag
          /\ panicked' = panicked
          /\ registers' = registers
          /\ mem' = mem
          /\ cycles' = last'.cycles]_vars

\* Two steps were taken in Halt mode, over RAM that holds a program.
C18_Witness ==
    /\ Len(trace) = 2
    /\ First.kind = "step"
    /\ First.mode = "Halt"
    /\ last.mode = "Halt"
    /\ Fetch(mem, 0) = 4
    /\ registers[4] = 0

\* ------------------------------------------------------------- claims: failures

\* The opcodes of the instruction kinds without an implementation: Stop, Halt,
\* ReturnInterrupt, StoreAToIoImm, StoreAToIoC, AddImmAsSignedToSp,
\* DisableInterrupts, LoadSignedImmPlusSpInHl, LoadHlinSp, EnableInterrupts and
\* TwoByteInstruction.
UnimplementedOps == {16, 118, 217, 224, 226, 232, 243, 248, 249, 251, 203}

\* C19: a step on an opcode of an unimplemented kind does not panic; it leaves the
\* registers and the memory as they were, the failure being a value the caller gets.
C19_UnimplementedFailsAsValue ==
    Stepped(UnimplementedOps) =>
        /\ ~panicked
        /\ registers = last.registers
        /\ mem = last.mem

\* The instructions that store below SP whatever the flags: Push rr, Call and
\* Restart.
StackStoreOps == {197, 213, 229, 245} \cup {205} \cup {199, 207, 215, 223, 231, 239, 247, 255}

\* C20: an instruction that stores below SP completes when SP - 2 or SP - 1 passes
\* below zero: it wraps around, so that with SP = 0 it stores at 0xFFFE and 0xFFFF
\* and leaves SP = 0xFFFE, and it changes no other byte.
C20_StackStoreWrapsAround ==
    (Stepped(StackStoreOps) /\ V16Read(last.registers, "SP") < 2) =>
        LET sp == V16Read(last.registers, "SP")
        IN  /\ ~panicked
            /\ V16Read(registers, "SP") = (sp + 65534) % 65536
            /\ \A addr \in 0..65535 :
                  addr \notin {(sp + 65534) % 65536, (sp + 65535) % 65536}
                      => Fetch(mem, addr) = Fetch(last.mem, addr)

\* ------------------------------------------------------------- claims: draw channel

\* C21: a send of a draw signal is always possible to the CPU thread, whatever the
\* channel holds, and changes neither the registers, the memory, the cycle counter
\* nor makes the thread fail; without a sink or with the receiver dropped the
\* signal is discarded; while the receiver is alive what the Gpu has observed,
\* followed by what is still queued, is what was sent, in the order it was sent.
C21_SendNeverBlocksAndKeepsOrder ==
    /\ [](run_at = "draw" /\ Len(chan.sent) < MaxSignals => ENABLED RunSend)
    /\ [](chan.alive => chan.observed \o chan.queue = chan.sent)
    /\ [][RunSend =>
            /\ registers' = registers /\ mem' = mem /\ cycles' = cycles
            /\ panicked' = panicked
            /\ ~(chan.sender /\ chan.alive) => chan' = chan]_vars

\* The Gpu has observed two different signals and two more wait in the channel.
C21_Witness ==
    /\ chan.alive
    /\ Len(chan.observed) >= 2
    /\ Len(chan.queue) >= 2
    /\ chan.observed[1] # chan.observed[2]
    /\ run_at = "draw"

\* ------------------------------------------------------------- claims: flag encoding

\* Bit b of F in the registers regs.
FBit(regs, b) == BitAnd(V8Read(regs, "F"), 2 ^ b) # 0

\* C22: the flag accessors use Z = bit 7, N = bit 6, H = bit 5, C = bit 4 of F: each
\* getter returns its bit, each setter called with true leaves its bit set, and a
\* conditional jump on NZ / Z / NC / C is taken according to bit 7, resp. bit 4, of
\* the F the step started with.
C22_FlagBitPositions ==
    /\ ZeroFlag(ThisCpu) = FBit(registers, 7)
    /\ SubtractFlag(ThisCpu) = FBit(registers, 6)
    /\ HalfCarryFlag(ThisCpu) = FBit(registers, 5)
    /\ CarryFlag(ThisCpu) = FBit(registers, 4)
    /\ FBit(SetZero(ThisCpu, TRUE).registers, 7)
    /\ FBit(SetSubtract(ThisCpu, TRUE).registers, 6)
    /\ FBit(SetHalfCarry(ThisCpu, TRUE).registers, 5)
    /\ FBit(SetCarry(ThisCpu, TRUE).registers, 4)
    /\ (Stepped({194, 202, 210, 218}) /\ ~panicked) =>
          (last.move.kind = "To") =
              CASE last.val = 194 -> ~FBit(last.registers, 7)
                [] last.val = 202 -> FBit(last.registers, 7)
                [] last.val = 210 -> ~FBit(last.registers, 4)
                [] last.val = 218 -> FBit(last.registers, 4)

\* ------------------------------------------------------------- claims: determinism

\* What a step makes of the registers regs, the memory m and the mode md, and the
\* count it returns, the counter being zero when it is called.
StepOf(regs, m, md) ==
    IF md # "Run" THEN [registers |-> regs, mem |-> m, ret |-> 0]
    ELSE Let(StepCpu(CpuOf(regs, m, 0)), LAMBDA s :
             [registers |-> s.cpu.registers, mem |-> s.cpu.mem, ret |-> s.cpu.cycles])

BeforeSP == V16Read(last.registers, "SP")

\* The step changed no byte of memory outside addrs.
SameMemExcept(addrs) ==
    \A addr \in (DOMAIN mem \cup DOMAIN last.mem) \ addrs :
        Fetch(mem, addr) = Fetch(last.mem, addr)

\* The step was a call of the routine at `to` from the instruction at p, of
\* length len, with the stack pointer at s.
CalledFrom(p, len, s, to) ==
    /\ ~panicked
    /\ Fetch(mem, (s + 65534) % 65536) = ((p + len) % 65536) % 256
    /\ Fetch(mem, (s + 65535) % 65536) = ((p + len) % 65536) \div 256
    /\ V16Read(registers, "SP") = (s + 65534) % 65536
    /\ V16Read(registers, "PC") = to
    /\ SameMemExcept({(s + 65534) % 65536, (s + 65535) % 65536})
    /\ \A i \in 0..3 : registers[i] = last.registers[i]

\* The little-endian word in the two bytes after the opcode of the step.
Imm16 ==
    Fetch(last.mem, (BeforePC + 1) % 65536) + 256 * Fetch(last.mem, (BeforePC + 2) % 65536)

\* C24: Call, and a CallIfFlag whose condition holds, at p with SP = s store the
\* return address p + 3 low byte first at s-2 and s-1, leave SP = s-2 and PC = the
\* imm16 after the opcode, and change no other byte and no other register; a
\* CallIfFlag whose condition is false changes neither SP nor memory.
C24_Call ==
    /\ (Stepped({205}) \/ (Stepped({196, 204, 212, 220}) /\ ConditionHolds(last.val)))
           => CalledFrom(BeforePC, 3, BeforeSP, Imm16)
    /\ (Stepped({196, 204, 212, 220}) /\ ~ConditionHolds(last.val))
           => /\ ~panicked
              /\ V16Read(registers, "SP") = BeforeSP
              /\ SameMemExcept({})

\* The little-endian word in memory at the stack pointer the step started with.
StackTop == Fetch(last.mem, BeforeSP) + 256 * Fetch(last.mem, (BeforeSP + 1) % 65536)

\* C25: Return, and a ReturnIfFlag whose condition holds, with SP = s leave
\* PC = mem[s] + 256 * mem[s+1] and SP = s + 2 and change no memory byte and no
\* register other than PC and SP; a ReturnIfFlag whose condition is false leaves
\* SP unchanged and advances PC by 1.
C25_Return ==
    /\ (Stepped({201}) \/ (Stepped({192, 200, 208, 216}) /\ ConditionHolds(last.val)))
           => /\ ~panicked
              /\ V16Read(registers, "PC") = StackTop
              /\ V16Read(registers, "SP") = (BeforeSP + 2) % 65536
              /\ SameMemExcept({})
              /\ \A i \in 0..3 : registers[i] = last.registers[i]
    /\ (Stepped({192, 200, 208, 216}) /\ ~ConditionHolds(last.val))
           => /\ ~panicked
              /\ V16Read(registers, "SP") = BeforeSP
              /\ V16Read(registers, "PC") = (BeforePC + 1) % 65536

\* The vector of a restart opcode: bits 3..5 of the opcode, times 8.
RestartVector(op) == ((op \div 8) % 8) * 8

\* C26: a restart opcode at p with SP = s is a Call of its vector (0x00, 0x08, ..
\* 0x38 by bits 3..5 of the opcode): PC = the vector, SP = s-2, and the word
\* stored at s-2, s-1 is the return address p + 1.
C26_Restart ==
    Stepped({199, 207, 215, 223, 231, 239, 247, 255})
        => CalledFrom(BeforePC, 1, BeforeSP, RestartVector(last.val))

\* ------------------------------------------------------------- claims: arithmetic and logic

\* The second operand of an 8-bit ALU opcode as the step found it: a register for
\* the low three bits 0..5 and 7, the byte at HL for 6, and for the immediate forms
\* (0xC6 .. 0xFE) the byte after the opcode.
AluOperand(op) ==
    IF op >= 192 THEN Fetch(last.mem, (BeforePC + 1) % 65536)
    ELSE IF op % 8 = 6 THEN Fetch(last.mem, V16Read(last.registers, "HL"))
    ELSE V8Read(last.registers, OperandReg(op))

AdcOps == (136..143) \cup {206}
SbcOps == (152..159) \cup {222}

\* C27: ADC leaves A = (a + b + c) mod 256 with C = (a + b + c >= 256),
\* H = ((a & 0xF) + (b & 0xF) + c > 0xF), Z = (result = 0), N = 0, and SBC leaves
\* A = (a - b - c) mod 256 with C = (a < b + c), H = ((b & 0xF) + c > (a & 0xF)),
\* Z = (result = 0), N = 1, where c is the C flag before the instruction.
C27_AdcSbc ==
    LET a == BeforeA
        b == AluOperand(last.val)
        c == IF CarryFlag(Before) THEN 1 ELSE 0
    IN  /\ Stepped(AdcOps) =>
              /\ ~panicked
              /\ V8Read(registers, "A") = (a + b + c) % 256
              /\ FlagsAre((a + b + c) % 256 = 0, FALSE, (a % 16) + (b % 16) + c > 15,
                          a + b + c >= 256)
        /\ Stepped(SbcOps) =>
              /\ ~panicked
              /\ V8Read(registers, "A") = (a - b - c) % 256
              /\ FlagsAre((a - b - c) % 256 = 0, TRUE, (b % 16) + c > a % 16, a < b + c)

AndOps == (160..167) \cup {230}
XorOps == (168..175) \cup {238}
OrOps == (176..183) \cup {246}

\* C28: And leaves A = a AND b with Z = (result = 0), N = 0, H = 1, C = 0; Or and
\* Xor leave A = a OR b, resp. a XOR b, with Z = (result = 0) and N = H = C = 0;
\* whatever F was, and no register other than A, F and PC changes.
C28_AndOrXor ==
    Stepped(AndOps \cup XorOps \cup OrOps) =>
        LET a == BeforeA
            b == AluOperand(last.val)
            res == IF last.val \in AndOps THEN BitAnd(a, b)
                   ELSE IF last.val \in XorOps THEN BitXor(a, b) ELSE BitOr(a, b)
        IN  /\ ~panicked
            /\ V8Read(registers, "A") = res
            /\ FlagsAre(res = 0, FALSE, last.val \in AndOps, FALSE)
            /\ \A r \in {"BC", "DE", "HL", "SP"} :
                  V16Read(registers, r) = V16Read(last.registers, r)

Inc8Ops == {4, 12, 20, 28, 36, 44, 60, 52}
Dec8Ops == {5, 13, 21, 29, 37, 45, 61, 53}

\* The operand of an Inc8 or Dec8 opcode, the byte at HL for 0x34 and 0x35, in the
\* registers regs and the memory m.
IncDecOperand(op, regs, m) ==
    IF op \in {52, 53} THEN Fetch(m, V16Read(last.registers, "HL"))
    ELSE V8Read(regs, IncDecReg(op))

\* C29: Inc8 stores (x + 1) mod 256 with Z = (result = 0), N = 0,
\* H = ((x & 0xF) = 0xF) and Dec8 stores (x - 1) mod 256 with Z = (result = 0), N = 1,
\* H = ((x & 0xF) = 0), for a register operand and for the byte at HL; C keeps
\* the value it had before.
C29_IncDec8 ==
    Stepped(Inc8Ops \cup Dec8Ops) =>
        LET x == IncDecOperand(last.val, last.registers, last.mem)
            inc == last.val \in Inc8Ops
            res == IF inc THEN (x + 1) % 256 ELSE (x + 255) % 256
        IN  /\ ~panicked
            /\ IncDecOperand(last.val, registers, mem) = res
            /\ FlagsAre(res = 0, ~inc, IF inc THEN x % 16 = 15 ELSE x % 16 = 0,
                        CarryFlag(Before))

\* The pair opcode 0x09, 0x19, 0x29 or 0x39 adds to HL.
Add16Pair(op) == CASE op = 9 -> "BC" [] op = 25 -> "DE" [] op = 41 -> "HL" [] op = 57 -> "SP"

\* C30: Add16toHL with operand rr leaves HL = (HL + rr) mod 2^16, N = 0,
\* H = (((HL ^ rr ^ result) & 0x1000) # 0), C = (HL + rr >= 2^16), Z as it was, and
\* BC, DE, SP and A unchanged.
C30_Add16toHL ==
    Stepped({9, 25, 41, 57}) =>
        LET hl == V16Read(last.registers, "HL")
            rr == V16Read(last.registers, Add16Pair(last.val))
            res == (hl + rr) % 65536
        IN  /\ ~panicked
            /\ V16Read(registers, "HL") = res
            /\ FlagsAre(ZeroFlag(Before), FALSE,
                        BitAnd(BitXor(BitXor(hl, rr), res), 4096) # 0, hl + rr >= 65536)
            /\ \A r \in {"BC", "DE", "SP"} : V16Read(registers, r) = V16Read(last.registers, r)
            /\ V8Read(registers, "A") = BeforeA

\* ------------------------------------------------------------- claims: rotates and carry

\* C31: the rotates on A (0x07 RLC, 0x17 RL, 0x0F RRC, 0x1F RR) leave Z = 0,
\* N = 0, H = 0 and C = the bit rotated out (bit 7 of the old A for RLC and RL,
\* bit 0 for RRC and RR); after RLC and RRC the new A is the old A rotated by one
\* bit position.
C31_RotatesOnA ==
    Stepped({7, 23, 15, 31}) =>
        LET a == BeforeA
            out == IF last.val \in {7, 23} THEN a \div 128 = 1 ELSE a % 2 = 1
        IN  /\ ~panicked
            /\ FlagsAre(FALSE, FALSE, FALSE, out)
            /\ (last.val = 7) => (V8Read(registers, "A") = ((2 * a) % 256) + (a \div 128))
            /\ (last.val = 15) => (V8Read(registers, "A") = (a \div 2) + 128 * (a % 2))

\* C32: SetCarryFlag (0x37) leaves C = 1, N = 0, H = 0 and Z unchanged;
\* FlipCarryFlag (0x3F) leaves C = the negation of its previous value, N = 0,
\* H = 0 and Z unchanged; neither changes any register other than F and PC.
C32_SetAndFlipCarry ==
    Stepped({55, 63}) =>
        /\ ~panicked
        /\ FlagsAre(ZeroFlag(Before), FALSE, FALSE,
                    IF last.val = 55 THEN TRUE ELSE ~CarryFlag(Before))
        /\ V8Read(registers, "A") = BeforeA
        /\ \A r \in {"BC", "DE", "HL", "SP"} :
              V16Read(registers, r) = V16Read(last.registers, r)

\* ------------------------------------------------------------- claims: decimal adjust

\* The packed-BCD byte of n in 0..99: the tens in the high nibble, the units in
\* the low one.
Bcd(n) == 16 * (n \div 10) + (n % 10)

\* The step started with A and the flags N, H, C as an 8-bit addition, resp.
\* subtraction, of the bytes x and y leaves them.
BeforeIsSumOf(x, y) ==
    /\ BeforeA = (x + y) % 256
    /\ ~SubtractFlag(Before)
    /\ HalfCarryFlag(Before) = ((x % 16) + (y % 16) > 15)
    /\ CarryFlag(Before) = (x + y > 255)
BeforeIsDifferenceOf(x, y) ==
    /\ BeforeA = (x - y) % 256
    /\ SubtractFlag(Before)
    /\ HalfCarryFlag(Before) = (x % 16 < y % 16)
    /\ CarryFlag(Before) = (x < y)

\* C33: Daa (0x27) after Add A of the packed-BCD bytes x and y leaves A = the
\* packed BCD of (x+y) mod 100 with C = (x+y >= 100), and after Sub A = the packed
\* BCD of (x-y) mod 100 with C = (x < y); in both cases Z = (A = 0), H = 0 and N
\* is as it was.
C33_DaaAdjustsBcd ==
    Stepped({39}) =>
        \A i, j \in 0..99 :
            /\ BeforeIsSumOf(Bcd(i), Bcd(j)) =>
                  /\ ~panicked
                  /\ V8Read(registers, "A") = Bcd((i + j) % 100)
                  /\ FlagsAre((i + j) % 100 = 0, FALSE, FALSE, i + j >= 100)
            /\ BeforeIsDifferenceOf(Bcd(i), Bcd(j)) =>
                  /\ ~panicked
                  /\ V8Read(registers, "A") = Bcd((i - j) % 100)
                  /\ FlagsAre((i - j) % 100 = 0, TRUE, FALSE, i < j)

\* ------------------------------------------------------------- claims: 16-bit counters, stores, moves

\* The pair the high nibble of an arithmetic-family opcode names.
ArithmeticPair(op) ==
    CASE op \div 16 = 0 -> "BC" [] op \div 16 = 1 -> "DE"
      [] op \div 16 = 2 -> "HL" [] op \div 16 = 3 -> "SP"

Inc16Ops == {3, 19, 35, 51}
Dec16Ops == {11, 27, 43, 59}

\* C34: Increment16 (0x03, 0x13, 0x23, 0x33) and Decrement16 (0x0B, 0x1B, 0x2B,
\* 0x3B) work on the pair the high nibble selects by 0=BC, 1=DE, 2=HL, 3=SP: that
\* pair becomes (rr+1) mod 2^16, resp. (rr-1) mod 2^16, and every other register
\* cell except PC, AF with the flags included, keeps its value.
C34_IncDec16 ==
    Stepped(Inc16Ops \cup Dec16Ops) =>
        LET rr == ArithmeticPair(last.val)
            old == V16Read(last.registers, rr)
        IN  /\ ~panicked
            /\ V16Read(registers, rr) =
                   (IF last.val \in Inc16Ops THEN old + 1 ELSE old - 1) % 65536
            /\ \A r \in {"BC", "DE", "HL", "AF", "SP"} \ {rr} :
                  V16Read(registers, r) = V16Read(last.registers, r)

\* The register-to-memory store opcodes, the pair holding the address and the
\* register stored.
StoreOps == {2, 18, 34, 50, 119} \cup (112..117)
StoreAddressPair(op) == IF op = 2 THEN "BC" ELSE IF op = 18 THEN "DE" ELSE "HL"
StoredReg(op) == IF op \in 112..117 THEN OperandReg(op) ELSE "A"

\* C35: a register-to-memory store writes exactly one byte: 0x02 and 0x12 set
\* mem[BC], resp. mem[DE], to A; 0x70-0x75 and 0x77 set mem[HL] to B, C, D, E, H,
\* L, A; 0x22 and 0x32 set mem[HL] to A and then HL to (HL+1) mod 2^16, resp.
\* (HL-1) mod 2^16; every other memory byte, the stored register, the flags and
\* all pairs other than HL (for 0x22, 0x32) are unchanged and PC advances by 1.
C35_StoreWritesOneByte ==
    Stepped(StoreOps) =>
        LET op == last.val
            addr == V16Read(last.registers, StoreAddressPair(op))
            hl == V16Read(last.registers, "HL")
        IN  /\ ~panicked
            /\ Fetch(mem, addr) = V8Read(last.registers, StoredReg(op))
            /\ SameMemExcept({addr})
            /\ V16Read(registers, "HL") =
                   (IF op = 34 THEN hl + 1 ELSE IF op = 50 THEN hl - 1 ELSE hl) % 65536
            /\ \A r \in {"BC", "DE", "AF", "SP"} :
                  V16Read(registers, r) = V16Read(last.registers, r)
            /\ V16Read(registers, "PC") = (BeforePC + 1) % 65536

\* A store of B through HL that changed the byte at HL.
C35_Witness ==
    /\ Stepped({112})
    /\ ~panicked
    /\ Fetch(mem, V16Read(registers, "HL")) = V8Read(registers, "B")
    /\ Fetch(last.mem, V16Read(registers, "HL")) # V8Read(registers, "B")
    /\ V8Read(registers, "B") # V8Read(registers, "A")

\* The register-to-register move opcodes: 0x40..0x7F with neither field 6, and
\* the register the destination field names.
MoveOps == {op \in 64..127 : op % 8 # 6 /\ (op \div 8) % 8 # 6}
MoveDest(op) == IncDecReg(op % 64)

\* C36: after a register-to-register move the destination register holds the
\* value the source register had before, every other 8-bit register, F included,
\* and SP are unchanged, and PC has advanced by 1.
C36_MoveCopiesSource ==
    Stepped(MoveOps) =>
        /\ ~panicked
        /\ V8Read(registers, MoveDest(last.val)) =
               V8Read(last.registers, OperandReg(last.val))
        /\ \A r \in {"A", "F", "B", "C", "D", "E", "H", "L"} \ {MoveDest(last.val)} :
              V8Read(registers, r) = V8Read(last.registers, r)
        /\ V16Read(registers, "SP") = BeforeSP
        /\ V16Read(registers, "PC") = (BeforePC + 1) % 65536

\* ------------------------------------------------------------- claims: IO page

\* The operand of an IO-page read: the byte after the opcode for 0xF0, register C
\* for 0xF2.
IoOperand(op) ==
    IF op = 240 THEN Fetch(last.mem, (BeforePC + 1) % 65536)
    ELSE V8Read(last.registers, "C")

\* C37: the IO-page reads use the address 0xFF00 | operand: 0xF0 at p sets A to
\* mem[0xFF00 + mem[p+1]] and 0xF2 sets A to mem[0xFF00 + C]; memory is not
\* modified.
C37_IoPageRead ==
    Stepped({240, 242}) =>
        /\ ~panicked
        /\ V8Read(registers, "A") = Fetch(last.mem, 65280 + IoOperand(last.val))
        /\ SameMemExcept({})

\* ------------------------------------------------------------- claims: screen buffer

\* The cells the pixels processed so far addressed.
ObservedCells == {ScreenIndex(chan.observed[i].x, chan.observed[i].y) : i \in DOMAIN chan.observed}

\* C38: for x < 160, y < 144 and a color in 0..3, processing DrawPixel(x, y,
\* color) in the Gpu writes exactly one cell of the screen buffer, at an index
\* below 23040 (no access is out of bounds), and two different coordinates
\* address two different cells.
C38_DrawPixelInBounds ==
    /\ ~game_window.panicked
    /\ \A cell \in ObservedCells : cell < GAME_SCREEN_WIDTH * GAME_SCREEN_HEIGHT
    /\ DOMAIN game_window.screen_buffer \subseteq ObservedCells
    /\ chan.observed # << >> =>
           LET signal == chan.observed[Len(chan.observed)]
           IN  Fetch(game_window.screen_buffer, ScreenIndex(signal.x, signal.y)) = signal.color
    /\ \A i, j \in DOMAIN chan.observed :
           <<chan.observed[i].x, chan.observed[i].y>> # <<chan.observed[j].x, chan.observed[j].y>>
               => ScreenIndex(chan.observed[i].x, chan.observed[i].y)
                      # ScreenIndex(chan.observed[j].x, chan.observed[j].y)

====
